---- MODULE Spec2Model ----
(***************************************************************************)
(* Model of iRouter's partition pruning pipeline:                          *)
(*   SQLParser.parse -> SQLParser.optimize -> SQLParser.extract_predicates *)
(*   -> PartitionPruner._discover_partitions -> _filter_partitions         *)
(*   -> PruningResult                                                      *)
(* then DuckDBBackend.execute, the result cache and the backend selector,  *)
(* each under a specification of its own: Spec (one prune call at a time), *)
(* SpecDiscovery (prune over a directory that changes between calls),      *)
(* SpecBackend, SpecExecution (execute over a directory that another       *)
(* program writes to), SpecCache, SpecSelector, SpecCost (the selection    *)
(* over pruning results of every volume), SpecTypes (Predicate.evaluate    *)
(* and ColumnStatistics.can_satisfy_predicate called on their own).        *)
(* Python strings are sequences of one-character strings, Python values    *)
(* are tagged records, an exception is an outcome of the operator that     *)
(* raises it.                                                              *)
(***************************************************************************)
EXTENDS Integers, Sequences, FiniteSets, TLC

----------------------------------------------------------------------------
(* Python str: ordering by code point, substring test, text of numbers.    *)

\* The characters the model uses, in code point order.
CharOrder ==
    << " ", "'", ",", "-", ".",
       "0", "1", "2", "3", "4", "5", "6", "7", "8", "9", "=",
       "A", "B", "C", "D", "E", "F", "G", "H", "I", "L", "M", "N", "O", "P",
       "Q", "R", "S", "T", "U", "V", "X", "[", "]",
       "a", "c", "d", "e", "g", "i", "l", "m", "n", "o", "p", "q", "r", "s",
       "t", "u", "v", "x", "y" >>

Ord(c) == CHOOSE i \in 1..Len(CharOrder) : CharOrder[i] = c

\* a < b on str: lexicographic by code point, a proper prefix is smaller.
StrLess(a, b) ==
    \E i \in 1..Len(b) :
        /\ \A j \in 1..(i - 1) : j <= Len(a) /\ a[j] = b[j]
        /\ (i > Len(a) \/ Ord(a[i]) < Ord(b[i]))

\* sub in s on str: s holds sub as a contiguous run.
Contains(sub, s) ==
    \E k \in 0..(Len(s) - Len(sub)) : SubSeq(s, k + 1, k + Len(sub)) = sub

EndsWith(s, suffix) ==
    /\ Len(suffix) <= Len(s)
    /\ SubSeq(s, Len(s) - Len(suffix) + 1, Len(s)) = suffix

Digits == {"0", "1", "2", "3", "4", "5", "6", "7", "8", "9"}

DigitVal(c) == Ord(c) - Ord("0")

AllDigits(s) == Len(s) > 0 /\ \A i \in 1..Len(s) : s[i] \in Digits

RECURSIVE DecVal(_)
DecVal(s) ==
    IF s = <<>> THEN 0
    ELSE DecVal(SubSeq(s, 1, Len(s) - 1)) * 10 + DigitVal(s[Len(s)])

RECURSIVE Pow10(_)
Pow10(k) == IF k = 0 THEN 1 ELSE 10 * Pow10(k - 1)

\* Position of the first occurrence of character c in s, 0 when absent.
IndexOf(s, c) ==
    IF \E i \in 1..Len(s) : s[i] = c
    THEN CHOOSE i \in 1..Len(s) : s[i] = c /\ \A j \in 1..(i - 1) : s[j] # c
    ELSE 0

\* Text of a non-negative integer, as str(int) writes it.
RECURSIVE DecText(_)
DecText(n) ==
    IF n < 10 THEN <<CharOrder[Ord("0") + n]>>
    ELSE DecText(n \div 10) \o <<CharOrder[Ord("0") + (n % 10)]>>

----------------------------------------------------------------------------
(* Python values.  Every value is a record of the same shape:              *)
(*   t  the type: "str", "int", "float", "bool", "none", "list",           *)
(*      "datetime"                                                         *)
(*   s  the characters of a str                                            *)
(*   n  an int, a bool as 0/1, the digits of a float, a datetime's         *)
(*      year*10000 + month*100 + day                                       *)
(*   k  a float is n / 10^k                                                *)
(*   l  the elements of a list                                             *)

PyStr(s)      == [t |-> "str",      s |-> s,    n |-> 0, k |-> 0, l |-> <<>>]
PyInt(n)      == [t |-> "int",      s |-> <<>>, n |-> n, k |-> 0, l |-> <<>>]
PyFloat(n, k) == [t |-> "float",    s |-> <<>>, n |-> n, k |-> k, l |-> <<>>]
PyBool(b)     == [t |-> "bool",     s |-> <<>>, n |-> IF b THEN 1 ELSE 0,
                  k |-> 0, l |-> <<>>]
PyNone        == [t |-> "none",     s |-> <<>>, n |-> 0, k |-> 0, l |-> <<>>]
PyList(l)     == [t |-> "list",     s |-> <<>>, n |-> 0, k |-> 0, l |-> l]
PyDatetime(n) == [t |-> "datetime", s |-> <<>>, n |-> n, k |-> 0, l |-> <<>>]

NumericTypes == {"int", "float", "bool"}

\* a == b.  Numbers compare by value across int, float and bool; values of
\* unrelated types are unequal; == never raises.
PyEq(a, b) ==
    IF a.t \in NumericTypes /\ b.t \in NumericTypes
    THEN a.n * Pow10(b.k) = b.n * Pow10(a.k)
    ELSE a = b

\* a < b: "T", "F", or "E" when Python raises TypeError (operands of
\* unrelated types, None included).
PyLess(a, b) ==
    IF a.t \in NumericTypes /\ b.t \in NumericTypes
    THEN IF a.n * Pow10(b.k) < b.n * Pow10(a.k) THEN "T" ELSE "F"
    ELSE IF a.t = "str" /\ b.t = "str"
    THEN IF StrLess(a.s, b.s) THEN "T" ELSE "F"
    ELSE IF a.t = "datetime" /\ b.t = "datetime"
    THEN IF a.n < b.n THEN "T" ELSE "F"
    ELSE "E"

\* a <= b, with the same three outcomes, from the outcome of a < b.
LessOrEqual(less, a, b) ==
    IF less = "E" THEN "E"
    ELSE IF less = "T" \/ PyEq(a, b) THEN "T" ELSE "F"

PyLessEq(a, b) == LessOrEqual(PyLess(a, b), a, b)

\* a in b: membership by == in a list, substring in a str (TypeError when
\* a is not a str), TypeError when b is not a container.
PyIn(a, b) ==
    IF b.t = "list"
    THEN IF \E i \in 1..Len(b.l) : PyEq(a, b.l[i]) THEN "T" ELSE "F"
    ELSE IF b.t = "str"
    THEN IF a.t # "str" THEN "E"
         ELSE IF Contains(a.s, b.s) THEN "T" ELSE "F"
    ELSE "E"

PyNeg(r) == IF r = "E" THEN "E" ELSE IF r = "T" THEN "F" ELSE "T"

\* repr(x) of a list element.
PyRepr(x) ==
    IF x.t = "str" THEN <<"'">> \o x.s \o <<"'">>
    ELSE IF x.t = "none" THEN <<"N", "o", "n", "e">>
    ELSE IF x.t = "bool"
    THEN (IF x.n = 1 THEN <<"T", "r", "u", "e">>
                     ELSE <<"F", "a", "l", "s", "e">>)
    ELSE DecText(x.n)

RECURSIVE JoinRepr(_)
JoinRepr(l) ==
    IF l = <<>> THEN <<>>
    ELSE IF Len(l) = 1 THEN PyRepr(l[1])
    ELSE PyRepr(l[1]) \o <<",", " ">> \o JoinRepr(Tail(l))

\* str(x): never raises.
PyStrOf(x) ==
    IF x.t = "str" THEN x
    ELSE IF x.t = "list" THEN PyStr(<<"[">> \o JoinRepr(x.l) \o <<"]">>)
    ELSE PyStr(PyRepr(x))

Ok(v)     == [exc |-> "none", v |-> v]
Raise(e)  == [exc |-> e, v |-> PyNone]

IsIntText(s) ==
    \/ AllDigits(s)
    \/ (Len(s) > 1 /\ s[1] = "-" /\ AllDigits(Tail(s)))

\* int(x): ValueError for a str that is no integer literal, TypeError for
\* None, a list or a datetime.
PyIntOf(x) ==
    IF x.t = "str"
    THEN IF ~IsIntText(x.s) THEN Raise("ValueError")
         ELSE IF x.s[1] = "-" THEN Ok(PyInt(0 - DecVal(Tail(x.s))))
         ELSE Ok(PyInt(DecVal(x.s)))
    ELSE IF x.t \in {"int", "bool"} THEN Ok(PyInt(x.n))
    ELSE IF x.t = "float" THEN Ok(PyInt(x.n \div Pow10(x.k)))
    ELSE Raise("TypeError")

\* Unsigned decimal text: digits, optionally a point and more digits.
DigitsAround(s, p) ==
    IF p = 0 THEN AllDigits(s)
    ELSE /\ Len(s) > 1
         /\ \A i \in 1..Len(s) : i # p => s[i] \in Digits

IsDecimalText(s) == DigitsAround(s, IndexOf(s, "."))

\* The number an unsigned decimal text with its point at p writes.
DecimalAt(s, p) ==
    IF p = 0 THEN PyFloat(DecVal(s), 0)
    ELSE PyFloat(DecVal(SubSeq(s, 1, p - 1) \o SubSeq(s, p + 1, Len(s))),
                 Len(s) - p)

DecimalOf(s) == DecimalAt(s, IndexOf(s, "."))

Negated(f) == PyFloat(0 - f.n, f.k)

\* float(x): ValueError for a str that is no number, TypeError for None, a
\* list or a datetime.
PyFloatOf(x) ==
    IF x.t = "str"
    THEN IF x.s # <<>> /\ x.s[1] = "-" /\ IsDecimalText(Tail(x.s))
         THEN Ok(Negated(DecimalOf(Tail(x.s))))
         ELSE IF IsDecimalText(x.s) THEN Ok(DecimalOf(x.s))
         ELSE Raise("ValueError")
    ELSE IF x.t \in NumericTypes THEN Ok(PyFloat(x.n, x.k))
    ELSE Raise("TypeError")

DaysInMonth(y, m) ==
    IF m \in {4, 6, 9, 11} THEN 30
    ELSE IF m # 2 THEN 31
    ELSE IF (y % 4 = 0 /\ y % 100 # 0) \/ y % 400 = 0 THEN 29
    ELSE 28

\* The text is YYYY-MM-DD and names a day of the calendar.
IsIsoDate(s) ==
    /\ Len(s) = 10
    /\ s[5] = "-" /\ s[8] = "-"
    /\ \A i \in {1, 2, 3, 4, 6, 7, 9, 10} : s[i] \in Digits
    /\ DecVal(SubSeq(s, 1, 4)) >= 1
    /\ DecVal(SubSeq(s, 6, 7)) \in 1..12
    /\ DecVal(SubSeq(s, 9, 10))
          \in 1..DaysInMonth(DecVal(SubSeq(s, 1, 4)), DecVal(SubSeq(s, 6, 7)))

\* datetime.fromisoformat(s): ValueError for a str that is no ISO date.
FromIsoFormat(s) ==
    IF IsIsoDate(s)
    THEN Ok(PyDatetime(DecVal(SubSeq(s, 1, 4)) * 10000
                       + DecVal(SubSeq(s, 6, 7)) * 100
                       + DecVal(SubSeq(s, 9, 10))))
    ELSE Raise("ValueError")

----------------------------------------------------------------------------
(* core/types.py: Predicate                                                *)

\* str.upper() on the characters of the model.
UpperChar(c) ==
    CASE c = "a" -> "A" [] c = "c" -> "C" [] c = "d" -> "D" [] c = "e" -> "E"
      [] c = "i" -> "I" [] c = "l" -> "L" [] c = "m" -> "M" [] c = "n" -> "N"
      [] c = "o" -> "O" [] c = "p" -> "P" [] c = "q" -> "Q" [] c = "r" -> "R"
      [] c = "s" -> "S" [] c = "t" -> "T" [] c = "u" -> "U" [] c = "v" -> "V"
      [] c = "x" -> "X" [] OTHER -> c

Upper(s) == [i \in 1..Len(s) |-> UpperChar(s[i])]

\* A predicate without a declared type has sql_type None, the empty text.
NoType == <<>>

DATE      == <<"D", "A", "T", "E">>
TIMESTAMP == <<"T", "I", "M", "E", "S", "T", "A", "M", "P">>
INT       == <<"I", "N", "T">>
BIGINT    == <<"B", "I", "G", "I", "N", "T">>
FLOAT     == <<"F", "L", "O", "A", "T">>
DOUBLE    == <<"D", "O", "U", "B", "L", "E">>
DECIMAL   == <<"D", "E", "C", "I", "M", "A", "L">>
VARCHAR   == <<"V", "A", "R", "C", "H", "A", "R">>

Predicate(column, operator, value, sql_type) ==
    [column |-> column, operator |-> operator, value |-> value,
     sql_type |-> sql_type]

\* The outcome of a conversion: the exception raised ("none" when it
\* returns) and the two converted values.
Converted(pv, cv) == [exc |-> "none", pv |-> pv, cv |-> cv]
ConvertRaises(e)  == [exc |-> e, pv |-> PyNone, cv |-> PyNone]

\* Two conversions in a row: the first that fails raises.
ConvertBoth(p, c) ==
    IF p.exc # "none" THEN ConvertRaises(p.exc)
    ELSE IF c.exc # "none" THEN ConvertRaises(c.exc)
    ELSE Converted(p.v, c.v)

\* datetime.fromisoformat(x) if isinstance(x, str), else x unchanged.
IsoIfStr(x) == IF x.t = "str" THEN FromIsoFormat(x.s) ELSE Ok(x)

\* The branch of _convert_types that the upper-cased type name selects.
ConvertBranch(sql_type_upper, partition_value, compare_value) ==
    IF Contains(DATE, sql_type_upper) \/ Contains(TIMESTAMP, sql_type_upper)
    THEN ConvertBoth(IsoIfStr(partition_value), IsoIfStr(compare_value))
    ELSE IF Contains(INT, sql_type_upper) \/ Contains(BIGINT, sql_type_upper)
    THEN ConvertBoth(PyIntOf(partition_value), PyIntOf(compare_value))
    ELSE IF \/ Contains(FLOAT, sql_type_upper)
            \/ Contains(DOUBLE, sql_type_upper)
            \/ Contains(DECIMAL, sql_type_upper)
    THEN ConvertBoth(PyFloatOf(partition_value), PyFloatOf(compare_value))
    ELSE Converted(PyStrOf(partition_value), PyStrOf(compare_value))

\* Predicate._convert_types: the partition value is converted first, then
\* the predicate's value; the first failing conversion raises.
ConvertTypes(sql_type, partition_value, compare_value) ==
    ConvertBranch(Upper(sql_type), partition_value, compare_value)

\* The comparison inside evaluate's try block: "T", "F" or "E" (raised).
Compare(operator, partition_value, compare_value) ==
    CASE operator = "EQ"  ->
            IF PyEq(partition_value, compare_value) THEN "T" ELSE "F"
      [] operator = "NEQ" ->
            IF PyEq(partition_value, compare_value) THEN "F" ELSE "T"
      [] operator = "GT"  -> PyLess(compare_value, partition_value)
      [] operator = "GTE" -> PyLessEq(compare_value, partition_value)
      [] operator = "LT"  -> PyLess(partition_value, compare_value)
      [] operator = "LTE" -> PyLessEq(partition_value, compare_value)
      [] operator = "IN"  -> PyIn(partition_value, compare_value)
      [] operator = "NOT_IN" -> PyNeg(PyIn(partition_value, compare_value))
      [] OTHER -> "T"

Returns(b)    == [exc |-> "none", v |-> b]
Propagates(e) == [exc |-> e, v |-> TRUE]

\* The try block of evaluate: an exception of the comparison is caught and
\* answered True.
TryCompare(operator, partition_value, compare_value) ==
    Returns(Compare(operator, partition_value, compare_value) # "F")

\* evaluate after the conversion: an exception of _convert_types, raised
\* before the try block, leaves evaluate.
EvaluateConverted(operator, conv) ==
    IF conv.exc # "none" THEN Propagates(conv.exc)
    ELSE TryCompare(operator, conv.pv, conv.cv)

\* Predicate.evaluate
Evaluate(predicate, partition_value) ==
    EvaluateConverted(
        predicate.operator,
        IF predicate.sql_type # NoType
        THEN ConvertTypes(predicate.sql_type, partition_value, predicate.value)
        ELSE Converted(partition_value, predicate.value))

----------------------------------------------------------------------------
(* The expression tree SQLParser receives from the SQL library.  A node is *)
(* a record with its class in kind and the arguments of that class:        *)
(*   Column(name, table, type)   Literal(this, is_string)   Null           *)
(*   Boolean(this)   Tuple(expressions)   Paren(this)   Not(this)          *)
(*   the binary classes (this, expression): And, Or, EQ, NEQ, GT, GTE,     *)
(*   LT, LTE, Like, Is                                                     *)
(*   Between(this, low, high)   Anonymous(this, expressions): a call of a  *)
(*   function the library has no class for                                 *)
(*   In(this, expressions): not a binary class and without an argument     *)
(*   named expression                                                      *)
(*   Select(where), Where(this)                                            *)
(* NoneObj is Python's None where the code holds None in place of a node.  *)

NoneObj == [kind |-> "None"]

Column(name, table) ==
    [kind |-> "Column", name |-> name, table |-> table, type |-> NoType]
Literal(this, is_string) ==
    [kind |-> "Literal", this |-> this, is_string |-> is_string]
Null            == [kind |-> "Null"]
Boolean(this)   == [kind |-> "Boolean", this |-> this]
Tuple(exprs)    == [kind |-> "Tuple", expressions |-> exprs]
Paren(this)     == [kind |-> "Paren", this |-> this]
Not(this)       == [kind |-> "Not", this |-> this]
Binary(kind, this, expression) ==
    [kind |-> kind, this |-> this, expression |-> expression]
And(l, r)       == Binary("And", l, r)
Or(l, r)        == Binary("Or", l, r)
In(this, exprs) == [kind |-> "In", this |-> this, expressions |-> exprs]
Between(this, low, high) ==
    [kind |-> "Between", this |-> this, low |-> low, high |-> high]
Anonymous(this, exprs) ==
    [kind |-> "Anonymous", this |-> this, expressions |-> exprs]
Where(this)     == [kind |-> "Where", this |-> this]
Select(where)   == [kind |-> "Select", where |-> where]

BinaryKinds ==
    {"And", "Or", "EQ", "NEQ", "GT", "GTE", "LT", "LTE", "Like", "Is"}

\* The nodes directly below a node.
Children(e) ==
    IF e.kind \in BinaryKinds THEN <<e.this, e.expression>>
    ELSE IF e.kind \in {"Not", "Paren", "Where"} THEN <<e.this>>
    ELSE IF e.kind = "In" THEN <<e.this>> \o e.expressions
    ELSE IF e.kind \in {"Tuple", "Anonymous"} THEN e.expressions
    ELSE IF e.kind = "Between" THEN <<e.this, e.low, e.high>>
    ELSE <<>>

\* str(expression): the SQL text of a node that is taken as an opaque value
\* (a column reference, a function call and its arguments), and "None" for
\* None.
RECURSIVE SqlText(_)
RECURSIVE JoinSqlText(_)
JoinSqlText(exprs) ==
    IF exprs = <<>> THEN <<>>
    ELSE IF Len(exprs) = 1 THEN SqlText(exprs[1])
    ELSE SqlText(exprs[1]) \o <<",", " ">> \o JoinSqlText(Tail(exprs))
SqlText(e) ==
    IF e.kind = "None" THEN <<"N", "o", "n", "e">>
    ELSE IF e.kind = "Column"
    THEN (IF e.table = <<>> THEN e.name ELSE e.table \o <<".">> \o e.name)
    ELSE IF e.kind = "Literal"
    THEN (IF e.is_string THEN <<"'">> \o e.this \o <<"'">> ELSE e.this)
    ELSE IF e.kind = "Anonymous"
    THEN e.this \o <<"(">> \o JoinSqlText(e.expressions) \o <<")">>
    ELSE <<>>

----------------------------------------------------------------------------
(* sqlglot/parser.py: SQLParser                                            *)

\* SQLParser.extract_where_clause: the WHERE clause of the statement, or
\* None.
ExtractWhereClause(ast) == ast.where

\* _has_or_not looking at the root of the condition only, not walking it.
HasOrNot_RootOnly(expression) == expression.kind \in {"Or", "Not"}

\* _has_or_not, had its isinstance test named exp.Or alone.
RECURSIVE HasOrNot_OnlyOr(_)
HasOrNot_OnlyOr(expression) ==
    \/ expression.kind = "Or"
    \/ \E i \in 1..Len(Children(expression)) :
          HasOrNot_OnlyOr(Children(expression)[i])

\* SQLParser._has_or_not: some node of the tree is an Or or a Not.
RECURSIVE HasOrNot(_)
HasOrNot(expression) ==
    \/ expression.kind \in {"Or", "Not"}
    \/ \E i \in 1..Len(Children(expression)) :
          HasOrNot(Children(expression)[i])

\* SQLParser._extract_value.
RECURSIVE ExtractValue(_)
ExtractValue(expression) ==
    IF expression.kind = "Literal" THEN PyStr(expression.this)
    ELSE IF expression.kind = "Tuple"
    THEN PyList([i \in 1..Len(expression.expressions) |->
                    ExtractValue(expression.expressions[i])])
    ELSE IF expression.kind = "Null" THEN PyNone
    ELSE IF expression.kind = "Boolean" THEN PyBool(expression.this)
    ELSE PyStr(SqlText(expression))

\* expression.left if the node has one (the binary classes), else
\* expression.this.
LeftOf(expression) == expression.this

\* expression.right if the node has one (the binary classes), else the
\* argument named expression, which an In node does not have: None.
RightOf(expression) ==
    IF expression.kind \in BinaryKinds THEN expression.expression
    ELSE NoneObj

\* _build_predicate without the filter by table.
BuildPredicate_AnyTable(expression, operator, table_filter) ==
    IF LeftOf(expression).kind # "Column" THEN <<>>
    ELSE <<Predicate(LeftOf(expression).name, operator,
                     ExtractValue(RightOf(expression)),
                     LeftOf(expression).type)>>

\* SQLParser._build_predicate: the predicate in a one-element list, or the
\* empty list for None.
BuildPredicate(expression, operator, table_filter) ==
    LET left  == LeftOf(expression)
        right == RightOf(expression)
    IN IF left.kind # "Column" THEN <<>>
       ELSE IF /\ table_filter # <<>>
               /\ left.table # <<>>
               /\ left.table # table_filter
       THEN <<>>
       ELSE <<Predicate(left.name, operator, ExtractValue(right), left.type)>>

\* The table of comparison classes, had it held exp.Like too.
ComparisonTypes_WithLike ==
    [EQ |-> "EQ", NEQ |-> "NEQ", GT |-> "GT", GTE |-> "GTE",
     LT |-> "LT", LTE |-> "LTE", In |-> "IN", Like |-> "LIKE"]

\* The closed table of comparison classes and their operators.
ComparisonTypes ==
    [EQ |-> "EQ", NEQ |-> "NEQ", GT |-> "GT", GTE |-> "GTE",
     LT |-> "LT", LTE |-> "LTE", In |-> "IN"]

\* _extract_simple_predicates, had it taken the right side of an And before
\* the left side.
RECURSIVE ExtractSimplePredicates_RightFirst(_, _)
ExtractSimplePredicates_RightFirst(expression, table_filter) ==
    IF expression.kind = "And"
    THEN ExtractSimplePredicates_RightFirst(expression.expression,
                                            table_filter)
         \o ExtractSimplePredicates_RightFirst(expression.this, table_filter)
    ELSE IF expression.kind \in DOMAIN ComparisonTypes
    THEN BuildPredicate(expression, ComparisonTypes[expression.kind],
                        table_filter)
    ELSE <<>>

\* SQLParser._extract_simple_predicates: an And contributes the predicates
\* of its left side, then of its right side; a comparison of the table
\* contributes its predicate; every other node contributes nothing.
RECURSIVE ExtractSimplePredicates(_, _)
ExtractSimplePredicates(expression, table_filter) ==
    IF expression.kind = "And"
    THEN ExtractSimplePredicates(expression.this, table_filter)
         \o ExtractSimplePredicates(expression.expression, table_filter)
    ELSE IF expression.kind \in DOMAIN ComparisonTypes
    THEN BuildPredicate(expression, ComparisonTypes[expression.kind],
                        table_filter)
    ELSE <<>>

PredicateExtractionResult(predicates, table_name, is_complex) ==
    [predicates |-> predicates, table_name |-> table_name,
     is_complex |-> is_complex]

\* SQLParser.extract_predicates.
ExtractPredicates(ast, table_name) ==
    LET where == ExtractWhereClause(ast) IN
    IF where = NoneObj
    THEN PredicateExtractionResult(<<>>, table_name, FALSE)
    ELSE PredicateExtractionResult(
             ExtractSimplePredicates(where.this, table_name),
             table_name,
             HasOrNot(where.this))

\* A schema is None or gives the declared type of each column of the table:
\* given tells the two apart, columns lists <<name, type>> pairs.
NoSchema        == [given |-> FALSE, columns |-> <<>>]
Schema(columns) == [given |-> TRUE, columns |-> columns]

Declares(schema, name) ==
    \E i \in 1..Len(schema.columns) : schema.columns[i][1] = name

DeclaredType(schema, name) ==
    schema.columns[CHOOSE i \in 1..Len(schema.columns) :
                       schema.columns[i][1] = name][2]

\* What the rule annotate_types leaves on the tree: every column the schema
\* declares carries its declared type, where _build_predicate reads it.
RECURSIVE AnnotateTypes(_, _)
AnnotateTypes(e, schema) ==
    IF e.kind = "Column"
    THEN [e EXCEPT !.type = IF Declares(schema, e.name)
                            THEN DeclaredType(schema, e.name) ELSE e.type]
    ELSE IF e.kind \in BinaryKinds
    THEN [e EXCEPT !.this = AnnotateTypes(e.this, schema),
                   !.expression = AnnotateTypes(e.expression, schema)]
    ELSE IF e.kind \in {"Not", "Paren", "Where", "In", "Between"}
    THEN [e EXCEPT !.this = AnnotateTypes(e.this, schema)]
    ELSE IF e.kind = "Select"
    THEN [e EXCEPT !.where = AnnotateTypes(e.where, schema)]
    ELSE e

\* optimize, had it returned what the rules had rewritten before one failed.
OptimizeResult_KeepsRewrite(ast, schema, rule_fails) ==
    IF ~schema.given THEN ast ELSE AnnotateTypes(ast, schema)

\* SQLParser.optimize: the type annotation rule runs only with a schema; a
\* rule that fails makes optimize return the tree it was given.
OptimizeResult(ast, schema, rule_fails) ==
    IF rule_fails \/ ~schema.given THEN ast ELSE AnnotateTypes(ast, schema)

----------------------------------------------------------------------------
(* optimizer/partition_pruning.py: PartitionPruner                         *)

PartitionInfo(path, partition_key, partition_value, size_bytes, file_count) ==
    [path |-> path, partition_key |-> partition_key,
     partition_value |-> partition_value, size_bytes |-> size_bytes,
     file_count |-> file_count]

ParquetSuffix == <<".", "p", "a", "r", "q", "u", "e", "t">>

\* glob("*") in place of glob("*.parquet").
ParquetFiles_AnyFile(partition_dir) == partition_dir.files

\* partition_dir.glob("*.parquet")
ParquetFiles(partition_dir) ==
    SelectSeq(partition_dir.files, LAMBDA f : EndsWith(f.name, ParquetSuffix))

RECURSIVE SumSize(_)
SumSize(files) ==
    IF files = <<>> THEN 0 ELSE Head(files).size + SumSize(Tail(files))

\* The loop of _discover_partitions over table_path.iterdir(): a directory
\* named key=value that holds a Parquet file yields a partition; the name
\* splits at its first "=".
\* The loop, had it ended (break) at the first entry that is no partition.
RECURSIVE DiscoverPartitions_Break(_)
DiscoverPartitions_Break(listing) ==
    IF listing = <<>> THEN <<>>
    ELSE IF ~Head(listing).is_dir THEN <<>>
    ELSE IF IndexOf(Head(listing).name, "=") = 0 THEN <<>>
    ELSE IF ParquetFiles(Head(listing)) = <<>> THEN <<>>
    ELSE << PartitionInfo(
                Head(listing).name,
                SubSeq(Head(listing).name, 1,
                       IndexOf(Head(listing).name, "=") - 1),
                SubSeq(Head(listing).name,
                       IndexOf(Head(listing).name, "=") + 1,
                       Len(Head(listing).name)),
                SumSize(ParquetFiles(Head(listing))),
                Len(ParquetFiles(Head(listing)))) >>
         \o DiscoverPartitions_Break(Tail(listing))

RECURSIVE DiscoverPartitions(_)
DiscoverPartitions(listing) ==
    IF listing = <<>> THEN <<>>
    ELSE LET partition_dir == Head(listing)
             eq            == IndexOf(partition_dir.name, "=")
             parquet_files == ParquetFiles(partition_dir)
             rest          == DiscoverPartitions(Tail(listing))
         IN IF ~partition_dir.is_dir THEN rest
            ELSE IF eq = 0 THEN rest
            ELSE IF parquet_files = <<>> THEN rest
            ELSE << PartitionInfo(
                        partition_dir.name,
                        SubSeq(partition_dir.name, 1, eq - 1),
                        SubSeq(partition_dir.name, eq + 1,
                               Len(partition_dir.name)),
                        SumSize(parquet_files),
                        Len(parquet_files)) >> \o rest

\* PredicateExtractionResult.get_partition_predicates
GetPartitionPredicates(extraction, partition_key) ==
    SelectSeq(extraction.predicates, LAMBDA p : p.column = partition_key)

\* _partition_matches returning the answer of the first predicate.
MatchStep_FirstDecides(r, rest) ==
    IF r.exc # "none" THEN r ELSE Returns(r.v)

\* One turn of the loop of _partition_matches, r the outcome of evaluate.
MatchStep(r, rest) ==
    IF r.exc # "none" THEN r
    ELSE IF ~r.v THEN Returns(FALSE)
    ELSE rest

\* PartitionPruner._partition_matches: False at the first predicate that
\* evaluates false; an exception leaving evaluate leaves this loop too.
RECURSIVE PartitionMatches(_, _)
PartitionMatches(partition, predicates) ==
    IF predicates = <<>> THEN Returns(TRUE)
    ELSE MatchStep(Evaluate(Head(predicates),
                            PyStr(partition.partition_value)),
                   PartitionMatches(partition, Tail(predicates)))

Filtered(matching) == [exc |-> "none", matching |-> matching]
FilterRaises(e)    == [exc |-> e, matching |-> <<>>]

\* A partition without predicates on its key is included; otherwise
\* _partition_matches decides.
Included(partition, relevant_predicates) ==
    IF relevant_predicates = <<>> THEN Returns(TRUE)
    ELSE PartitionMatches(partition, relevant_predicates)

\* _filter_partitions inserting at the front of matching.
FilterStep_Prepends(partition, m, rest) ==
    IF m.exc # "none" THEN FilterRaises(m.exc)
    ELSE IF rest.exc # "none" THEN rest
    ELSE IF m.v THEN Filtered(rest.matching \o <<partition>>)
    ELSE rest

\* One turn of the loop of _filter_partitions, m the decision on partition.
FilterStep(partition, m, rest) ==
    IF m.exc # "none" THEN FilterRaises(m.exc)
    ELSE IF rest.exc # "none" THEN rest
    ELSE IF m.v THEN Filtered(<<partition>> \o rest.matching)
    ELSE rest

\* PartitionPruner._filter_partitions, partitions in discovery order.
RECURSIVE FilterPartitions(_, _)
FilterPartitions(partitions, extraction) ==
    IF partitions = <<>> THEN Filtered(<<>>)
    ELSE FilterStep(
             Head(partitions),
             Included(Head(partitions),
                      GetPartitionPredicates(
                          extraction, Head(partitions).partition_key)),
             FilterPartitions(Tail(partitions), extraction))

\* Step 5 of prune without the test of is_complex.
MatchingPartitions_IgnoresComplex(all, extraction) ==
    IF extraction.predicates = <<>>
    THEN Filtered(all)
    ELSE FilterPartitions(all, extraction)

\* Step 5 of prune: no predicates, or a complex clause, scans everything.
MatchingPartitions(all, extraction) ==
    IF extraction.predicates = <<>> \/ extraction.is_complex
    THEN Filtered(all)
    ELSE FilterPartitions(all, extraction)

RECURSIVE SumSizeBytes(_)
SumSizeBytes(partitions) ==
    IF partitions = <<>> THEN 0
    ELSE Head(partitions).size_bytes + SumSizeBytes(Tail(partitions))

RECURSIVE SumFileCount(_)
SumFileCount(partitions) ==
    IF partitions = <<>> THEN 0
    ELSE Head(partitions).file_count + SumFileCount(Tail(partitions))

\* Step 6 of prune totalling over all_partitions.
PruningResult_TotalsAll(matching, all, extraction) ==
    [partitions_to_scan |-> matching,
     total_partitions   |-> Len(all),
     total_size_bytes   |-> SumSizeBytes(all),
     total_files        |-> SumFileCount(all),
     predicates_applied |-> extraction.predicates]

\* Step 6 of prune and the PruningResult it returns (pruning_time_sec, the
\* wall clock, is left out).
PruningResult(matching, all, extraction) ==
    [partitions_to_scan |-> matching,
     total_partitions   |-> Len(all),
     total_size_bytes   |-> SumSizeBytes(matching),
     total_files        |-> SumFileCount(matching),
     predicates_applied |-> extraction.predicates]

----------------------------------------------------------------------------
(* core/types.py: PruningResult's derived properties.  A float is the      *)
(* fraction num/den; a division by zero raises.                            *)

Fraction(num, den) == [exc |-> "none", num |-> num, den |-> den]
Divide(a, b) ==
    IF b = 0 THEN [exc |-> "ZeroDivisionError", num |-> 0, den |-> 1]
    ELSE Fraction(a, b)

PartitionsScanned(r) == Len(r.partitions_to_scan)

PruningRatio(r) ==
    IF r.total_partitions = 0 THEN Fraction(0, 1)
    ELSE LET q == Divide(PartitionsScanned(r), r.total_partitions)
         IN IF q.exc # "none" THEN q ELSE Fraction(q.den - q.num, q.den)

\* speedup_estimate without the test of partitions_scanned.
SpeedupEstimate_Unguarded(r) ==
    Divide(r.total_partitions, PartitionsScanned(r))

SpeedupEstimate(r) ==
    IF PartitionsScanned(r) = 0 THEN Fraction(1, 1)
    ELSE Divide(r.total_partitions, PartitionsScanned(r))

----------------------------------------------------------------------------
(* The inputs: texts, table directories, statements, schemas.              *)

Nov(day) == <<"2", "0", "2", "4", "-", "1", "1", "-">> \o day
D01 == Nov(<<"0", "1">>)
D03 == Nov(<<"0", "3">>)
D05 == Nov(<<"0", "5">>)
D07 == Nov(<<"0", "7">>)
D09 == Nov(<<"0", "9">>)
US  == <<"U", "S">>

date  == <<"d", "a", "t", "e">>
year  == <<"y", "e", "a", "r">>
price == <<"p", "r", "i", "c", "e">>
sales == <<"s", "a", "l", "e", "s">>
other == <<"o", "t", "h", "e", "r">>

File(name, size) == [name |-> name, size |-> size]
Dir(name, files) == [name |-> name, is_dir |-> TRUE, files |-> files]
PlainFile(name)  == [name |-> name, is_dir |-> FALSE, files |-> <<>>]

AParquet == <<"a">> \o ParquetSuffix
BParquet == <<"b">> \o ParquetSuffix
CCsv     == <<"c", ".", "c", "s", "v">>

\* The entries a table directory may hold, in the order iterdir lists them.
DirEntries ==
    << Dir(date \o <<"=">> \o D03, <<File(AParquet, 5)>>),
       Dir(year \o <<"=", "1", "0">>, <<File(AParquet, 2)>>),
       Dir(date \o <<"=">> \o D01,
           <<File(AParquet, 3), File(CCsv, 7), File(BParquet, 4)>>),
       Dir(date \o <<"=">> \o D07, <<File(CCsv, 1)>>),
       Dir(year \o <<"=", "9">>, <<File(AParquet, 1)>>),
       PlainFile(date \o <<"=">> \o D09),
       Dir(<<"t", "m", "p">>, <<File(AParquet, 6)>>),
       Dir(date \o <<"=", "1", "=", "1">>, <<File(BParquet, 2)>>),
       Dir(price \o <<"=", "9", ".", "5">>, <<File(AParquet, 1)>>),
       Dir(date \o <<"=">> \o D05, <<File(AParquet, 8)>>) >>

\* A table directory holds at most MaxEntries entries.
MaxEntries == 3

Listing(S) ==
    LET picked == SelectSeq([i \in 1..Len(DirEntries) |-> i],
                            LAMBDA i : i \in S)
    IN [j \in 1..Len(picked) |-> DirEntries[picked[j]]]

TableDirs ==
    { Listing(S) : S \in { T \in SUBSET (1..Len(DirEntries)) :
                              Cardinality(T) <= MaxEntries } }

DateCol  == Column(date, <<>>)
YearCol  == Column(year, <<>>)
PriceCol == Column(price, <<>>)

Str(text) == Literal(text, TRUE)
Num(text) == Literal(text, FALSE)

OrderingKinds == {"EQ", "NEQ", "GT", "GTE", "LT", "LTE"}

\* Single comparisons.
Leaves ==
    { Binary(k, DateCol, Str(D03)) : k \in OrderingKinds \cup {"Like"} }
    \cup { Binary(k, YearCol, Num(<<"9">>)) : k \in {"EQ", "NEQ", "GT", "LTE"} }
    \cup { In(DateCol, <<Str(D01), Str(D03)>>),
           In(YearCol, <<Num(<<"9">>), Num(<<"1", "0">>)>>),
           Binary("LTE", DateCol, Str(D05)),
           Binary("GT", DateCol, Str(US)),
           Binary("GT", PriceCol, Num(<<"1", "0">>)),
           Binary("EQ", PriceCol, Num(<<"9", ".", "5", "0">>)),
           Binary("EQ", DateCol, Null),
           Binary("GT", DateCol, Null),
           Binary("EQ", DateCol, Boolean(TRUE)),
           Binary("EQ", DateCol, Tuple(<<Str(D03)>>)),
           Binary("GTE", DateCol, YearCol),
           Binary("EQ", Num(<<"1">>), Num(<<"1">>)),
           Binary("EQ", Column(date, other), Str(D03)),
           Binary("EQ", Column(date, sales), Str(D01)),
           Binary("Is", DateCol, Null),
           Between(DateCol, Str(D01), Str(D05)),
           Anonymous(<<"f">>, <<DateCol, Str(D03)>>),
           Binary("EQ", DateCol, Anonymous(<<"f">>, <<Str(D03), YearCol>>)) }

\* Conjuncts that contribute no predicate.
Skipped ==
    { Binary("Is", DateCol, Null),
      Between(DateCol, Str(D01), Str(D05)),
      Anonymous(<<"f">>, <<DateCol, Str(D03)>>),
      Binary("EQ", Num(<<"1">>), Num(<<"1">>)),
      Binary("EQ", Column(date, other), Str(D03)) }

\* The comparisons that compound conditions are built from.
Core ==
    { Binary("GTE", DateCol, Str(D03)),
      Binary("LTE", DateCol, Str(D05)),
      Binary("GT", YearCol, Num(<<"9">>)) }

Conditions ==
    Leaves
    \cup { And(a, b) : a \in Core, b \in Core }
    \cup { Or(a, b) : a \in Core, b \in Core }
    \cup { Not(a) : a \in Core }
    \cup { Paren(a) : a \in Core }
    \cup { And(a, Or(Binary("EQ", DateCol, Str(D01)),
                     Binary("EQ", YearCol, Num(<<"9">>)))) : a \in Core }
    \cup { And(a, Not(Binary("EQ", DateCol, Str(D03)))) : a \in Core }
    \cup { And(And(Binary("NEQ", DateCol, Str(D03)),
                   Binary("LT", YearCol, Num(<<"1", "0">>))), a) : a \in Core }
    \cup { And(a, Binary("Like", DateCol, Str(D03))) : a \in Core }
    \cup { And(a, Binary("GTE", DateCol, Str(D03))) : a \in Skipped }
    \cup { And(Binary("EQ", Column(date, sales), Str(D03)), a) : a \in Skipped }

\* A SQL text: malformed, or the statement it parses to.
Sql(malformed, statement) ==
    [malformed |-> malformed, statement |-> statement]

Statements ==
    { Select(NoneObj) } \cup { Select(Where(c)) : c \in Conditions }

SqlTexts ==
    { Sql(TRUE, NoneObj) } \cup { Sql(FALSE, st) : st \in Statements }

SalesSchema ==
    Schema(<< <<date, DATE>>, <<year, INT>>, <<price, DOUBLE>> >>)

Schemas == { NoSchema, SalesSchema }

----------------------------------------------------------------------------
(* The state: the table directory on disk and one call of                 *)
(* PartitionPruner.prune(table_name, sql, schema) at a time.               *)

VARIABLES
    table_exists,    \* the table root exists
    table_dir,       \* its entries, as iterdir lists them
    pc,              \* where the call of prune stands
    table_name,      \* prune's arguments
    sql,
    schema,
    ast,             \* prune's locals
    optimized,
    extraction,
    all_partitions,
    result,          \* the PruningResult returned
    raised,          \* the exception that left prune, "none" if none
    summary,         \* the derived metrics read from the result
    fs_read,         \* the call has asked the filesystem for the table root
    warned,          \* optimize has printed "Warning: Optimization failed"
    prev_partitions, \* the partitions the previous call discovered
    exec_pc,         \* where the call of DuckDBBackend.execute stands
    exec_args,       \* execute's arguments
    file_paths,      \* execute's local
    views,           \* the views of the backend's connection
    exec_result,     \* what left execute: a DataFrame or an exception
    cache_store,     \* the result cache: its entries
    cache_stats,     \* its counters
    clock,           \* the time the cache reads
    cache_log,       \* the cache operations so far, with their answers
    request,         \* the selector: what the caller asked of it
    estimates,       \* the CostEstimate of each candidate that is left
    selected,        \* the backend select answered
    types_call,      \* a call of a method of core/types.py: its arguments
    types_answer     \* what the call answered

prunerVars == << table_exists, table_dir, pc, table_name, sql, schema, ast,
                 optimized, extraction, all_partitions, result, raised,
                 summary, fs_read, warned >>
backendVars  == << exec_pc, exec_args, file_paths, views, exec_result >>
cacheVars    == << cache_store, cache_stats, clock, cache_log >>
selectorVars == << request, estimates, selected >>
typesVars    == << types_call, types_answer >>
outsideVars  == << backendVars, cacheVars, selectorVars, typesVars >>

vars == << prunerVars, prev_partitions, backendVars, cacheVars,
           selectorVars, typesVars >>

fsVars   == << table_exists, table_dir >>
argVars  == << table_name, sql, schema >>

\* DuckDBBackend.__init__: a connection without views, no call open.
BackendIdle ==
    /\ exec_pc = "idle"
    /\ exec_args = NoneObj
    /\ file_paths = <<>>
    /\ views = {}
    /\ exec_result = NoneObj

\* A new cache: no entries, every counter zero.
CacheEmpty ==
    /\ cache_store = <<>>
    /\ cache_stats = [total_requests |-> 0, hits |-> 0, misses |-> 0,
                      evictions |-> 0, expirations |-> 0,
                      invalidations |-> 0]
    /\ clock = 0
    /\ cache_log = <<>>

\* No method of core/types.py is called.
TypesIdle ==
    /\ types_call = NoneObj
    /\ types_answer = NoneObj

\* No selection was asked for.
NoRequest ==
    [candidates |-> <<>>, profiles |-> <<>>, pruning |-> << 0, 0 >>,
     features |-> {}, lacks |-> [b \in {"spark", "polars"} |-> {}],
     forced |-> "none"]
SelectorIdle ==
    /\ request = NoRequest
    /\ estimates = <<>>
    /\ selected = [status |-> "idle", estimate |-> NoneObj]

\* What is remembered of the previous call's discovery: nothing, or its
\* partitions while the table directory holds what it held then.
NoPass         == [known |-> FALSE, partitions |-> {}]
Pass(partitions) ==
    [known |-> TRUE,
     partitions |-> { partitions[i] : i \in 1..Len(partitions) }]

\* No call of prune is open.
PrunerIdle ==
    /\ pc = "idle"
    /\ table_name = sales
    /\ sql = NoneObj
    /\ schema = NoSchema
    /\ ast = NoneObj
    /\ optimized = NoneObj
    /\ extraction = NoneObj
    /\ all_partitions = <<>>
    /\ result = NoneObj
    /\ raised = "none"
    /\ summary = NoneObj
    /\ fs_read = FALSE
    /\ warned = FALSE
    /\ prev_partitions = NoPass

Init ==
    /\ table_exists \in BOOLEAN
    /\ table_dir \in TableDirs
    /\ (~table_exists => table_dir = <<>>)
    /\ PrunerIdle
    /\ BackendIdle
    /\ CacheEmpty
    /\ SelectorIdle
    /\ TypesIdle

\* A caller invokes prune.
StartPrune(q, sch) ==
    /\ pc = "idle"
    /\ pc' = "parse"
    /\ sql' = q
    /\ schema' = sch
    /\ UNCHANGED << table_exists, table_dir, table_name, ast, optimized,
                    extraction, all_partitions, result, raised, summary,
                    fs_read, warned >>
    /\ UNCHANGED << prev_partitions, outsideVars >>

\* parse, had it answered an empty statement for a text it cannot parse.
Parse_Lenient ==
    /\ pc = "parse"
    /\ ast' = IF sql.malformed THEN Select(NoneObj) ELSE sql.statement
    /\ pc' = "optimize"
    /\ UNCHANGED << fsVars, argVars, optimized, extraction, all_partitions,
                    result, raised, summary, fs_read, warned >>
    /\ UNCHANGED << prev_partitions, outsideVars >>

\* Step 1, SQLParser.parse: a malformed text raises ValueError.
Parse ==
    /\ pc = "parse"
    /\ IF sql.malformed
       THEN /\ raised' = "ValueError: Failed to parse SQL"
            /\ pc' = "raised"
            /\ ast' = ast
       ELSE /\ ast' = sql.statement
            /\ pc' = "optimize"
            /\ raised' = raised
    /\ UNCHANGED << fsVars, argVars, optimized, extraction, all_partitions,
                    result, summary, fs_read, warned >>
    /\ UNCHANGED << prev_partitions, outsideVars >>

\* Step 2, SQLParser.optimize: the rules may fail; optimize then prints a
\* warning.
Optimize(rule_fails) ==
    /\ pc = "optimize"
    /\ optimized' = OptimizeResult(ast, schema, rule_fails)
    /\ warned' = rule_fails
    /\ pc' = "extract"
    /\ UNCHANGED << fsVars, argVars, ast, extraction, all_partitions,
                    result, raised, summary, fs_read >>
    /\ UNCHANGED << prev_partitions, outsideVars >>

\* Step 3, SQLParser.extract_predicates.
Extract ==
    /\ pc = "extract"
    /\ extraction' = ExtractPredicates(optimized, table_name)
    /\ pc' = "discover"
    /\ UNCHANGED << fsVars, argVars, ast, optimized, all_partitions,
                    result, raised, summary, fs_read, warned >>
    /\ UNCHANGED << prev_partitions, outsideVars >>

\* Step 4, _discover_partitions: a missing table root raises
\* FileNotFoundError.
Discover ==
    /\ pc = "discover"
    /\ fs_read' = TRUE
    /\ IF ~table_exists
       THEN /\ raised' = "FileNotFoundError"
            /\ pc' = "raised"
            /\ all_partitions' = all_partitions
       ELSE /\ all_partitions' = DiscoverPartitions(table_dir)
            /\ pc' = "filter"
            /\ raised' = raised
    /\ UNCHANGED << fsVars, argVars, ast, optimized, extraction,
                    result, summary, warned >>
    /\ UNCHANGED << prev_partitions, outsideVars >>

\* Steps 5 and 6: filter, total, return; an exception of the filter leaves
\* prune.
Filter ==
    /\ pc = "filter"
    /\ \E m \in {MatchingPartitions(all_partitions, extraction)} :
          IF m.exc # "none"
          THEN /\ raised' = m.exc
               /\ pc' = "raised"
               /\ result' = result
          ELSE /\ result' = PruningResult(m.matching, all_partitions,
                                          extraction)
               /\ pc' = "done"
               /\ raised' = raised
    /\ UNCHANGED << fsVars, argVars, ast, optimized, extraction,
                    all_partitions, summary, fs_read, warned >>
    /\ UNCHANGED << prev_partitions, outsideVars >>

\* The caller reads the derived metrics of the result
\* (PruningResult.summary).
Summary ==
    /\ pc = "done"
    /\ summary' = [partitions_scanned |-> PartitionsScanned(result),
                   pruning_ratio      |-> PruningRatio(result),
                   speedup_estimate   |-> SpeedupEstimate(result)]
    /\ pc' = "reported"
    /\ UNCHANGED << fsVars, argVars, ast, optimized, extraction,
                    all_partitions, result, raised, fs_read, warned >>
    /\ UNCHANGED << prev_partitions, outsideVars >>

\* The call is over; the pruner keeps nothing of it.
Return ==
    /\ pc \in {"reported", "raised"}
    /\ pc' = "idle"
    /\ sql' = NoneObj
    /\ schema' = NoSchema
    /\ ast' = NoneObj
    /\ optimized' = NoneObj
    /\ extraction' = NoneObj
    /\ all_partitions' = <<>>
    /\ result' = NoneObj
    /\ raised' = "none"
    /\ summary' = NoneObj
    /\ fs_read' = FALSE
    /\ warned' = FALSE
    /\ UNCHANGED << fsVars, table_name, outsideVars >>

Next ==
    \/ \E q \in SqlTexts, sch \in Schemas : StartPrune(q, sch)
    \/ Parse
    \/ \E rule_fails \in BOOLEAN : Optimize(rule_fails)
    \/ Extract
    \/ Discover
    \/ Filter
    \/ Summary
    \/ Return /\ UNCHANGED prev_partitions

Spec == Init /\ [][Next]_vars

----------------------------------------------------------------------------
(* prune called again and again on a table directory that other programs   *)
(* change between the calls, and that iterdir lists in no particular       *)
(* order.                                                                  *)

\* The call is over; its discovery is remembered if it made one.
ReturnRecorded ==
    /\ Return
    /\ prev_partitions' =
          IF fs_read /\ table_exists THEN Pass(all_partitions)
          ELSE prev_partitions

\* Another program adds an entry to the table directory.
AddEntry(entry) ==
    /\ pc = "idle"
    /\ table_exists
    /\ Len(table_dir) < MaxEntries
    /\ \A i \in 1..Len(table_dir) : table_dir[i].name # entry.name
    /\ table_dir' = Append(table_dir, entry)
    /\ prev_partitions' = NoPass
    /\ UNCHANGED << table_exists, pc, table_name, sql, schema, ast,
                    optimized, extraction, all_partitions, result, raised,
                    summary, fs_read, warned >>
    /\ UNCHANGED outsideVars

\* Another program removes an entry of the table directory.
RemoveEntry(at) ==
    /\ pc = "idle"
    /\ at \in 1..Len(table_dir)
    /\ table_dir' = SubSeq(table_dir, 1, at - 1)
                       \o SubSeq(table_dir, at + 1, Len(table_dir))
    /\ prev_partitions' = NoPass
    /\ UNCHANGED << table_exists, pc, table_name, sql, schema, ast,
                    optimized, extraction, all_partitions, result, raised,
                    summary, fs_read, warned >>
    /\ UNCHANGED outsideVars

\* Another program creates the table root, empty, or removes it with all
\* it holds.
SetTableRoot(exists) ==
    /\ pc = "idle"
    /\ table_exists # exists
    /\ table_exists' = exists
    /\ table_dir' = <<>>
    /\ prev_partitions' = NoPass
    /\ UNCHANGED << pc, table_name, sql, schema, ast, optimized, extraction,
                    all_partitions, result, raised, summary, fs_read,
                    warned >>
    /\ UNCHANGED outsideVars

\* The directory holds what it held; iterdir lists it in another order.
Relist(order) ==
    /\ pc = "idle"
    /\ table_dir' = [i \in 1..Len(table_dir) |-> table_dir[order[i]]]
    /\ table_dir' # table_dir
    /\ UNCHANGED << table_exists, pc, table_name, sql, schema, ast,
                    optimized, extraction, all_partitions, result, raised,
                    summary, fs_read, warned >>
    /\ UNCHANGED << prev_partitions, outsideVars >>

\* The queries of the repeated calls.
DiscoveryTexts ==
    { Sql(TRUE, NoneObj),
      Sql(FALSE, Select(NoneObj)),
      Sql(FALSE, Select(Where(Binary("GTE", DateCol, Str(D03))))) }

NextDiscovery ==
    \/ \E q \in DiscoveryTexts : StartPrune(q, NoSchema)
    \/ Parse
    \/ \E rule_fails \in BOOLEAN : Optimize(rule_fails)
    \/ Extract
    \/ Discover
    \/ Filter
    \/ Summary
    \/ ReturnRecorded
    \/ \E i \in 1..Len(DirEntries) : AddEntry(DirEntries[i])
    \/ \E at \in 1..MaxEntries : RemoveEntry(at)
    \/ \E exists \in BOOLEAN : SetTableRoot(exists)
    \/ \E order \in Permutations(1..Len(table_dir)) : Relist(order)

SpecDiscovery == Init /\ [][NextDiscovery]_vars

----------------------------------------------------------------------------
(* backends/duckdb_backend.py: DuckDBBackend.  The engine is DuckDB: it    *)
(* rejects a CREATE VIEW whose name is no identifier or whose files it     *)
(* cannot read as Parquet, and it may fail any query.                      *)

DataFrame(rows)          == [type |-> "DataFrame", message |-> <<>>,
                             rows |-> rows]
Exception(type, message) == [type |-> type, message |-> message,
                             rows |-> <<>>]

\* _get_file_paths, had it listed every directory of the table.
RECURSIVE GetFilePaths_EveryDirectory(_, _)
GetFilePaths_EveryDirectory(partitions, disk) ==
    IF disk = <<>> THEN <<>>
    ELSE [i \in 1..Len(ParquetFiles(disk[1])) |->
             << disk[1].name, ParquetFiles(disk[1])[i].name >>]
         \o GetFilePaths_EveryDirectory(partitions, Tail(disk))

\* _get_file_paths: the Parquet files found now under every partition path.
RECURSIVE GetFilePaths(_, _)
GetFilePaths(partitions, disk) ==
    IF partitions = <<>> THEN <<>>
    ELSE LET here == SelectSeq(disk, LAMBDA e : e.name = Head(partitions).path)
         IN (IF here = <<>> THEN <<>>
             ELSE [i \in 1..Len(ParquetFiles(here[1])) |->
                      << Head(partitions).path,
                         ParquetFiles(here[1])[i].name >>])
            \o GetFilePaths(Tail(partitions), disk)

NameChars ==
    {"a", "b", "c", "d", "e", "f", "g", "h", "i", "j", "k", "l", "m", "n",
     "o", "p", "q", "r", "s", "t", "u", "v", "w", "x", "y", "z", "_"}

\* The engine parses CREATE OR REPLACE VIEW <table_name> AS ...: the name
\* is put in the statement as it is.
IsViewName(name) ==
    /\ name # <<>>
    /\ \A i \in 1..Len(name) : name[i] \in NameChars

\* f"DuckDB query execution failed: {e}"
ExecutionFailed(e) ==
    Exception("RuntimeError",
              <<"DuckDB query execution failed: ">> \o e.message)

\* A caller invokes execute.
StartExecute(q, pruning_result, name) ==
    /\ exec_pc = "idle"
    /\ exec_args' = [sql |-> q, pruning_result |-> pruning_result,
                     table_name |-> name]
    /\ exec_pc' = "paths"
    /\ UNCHANGED << file_paths, views, exec_result >>
    /\ UNCHANGED << prunerVars, prev_partitions, cacheVars, selectorVars,
                    typesVars >>

\* execute, had it gone on to register the table without files.
FilePaths_AlwaysRegisters ==
    /\ exec_pc = "paths"
    /\ file_paths' = GetFilePaths(exec_args.pruning_result.partitions_to_scan,
                                  table_dir)
    /\ exec_result' = exec_result
    /\ exec_pc' = "register"
    /\ UNCHANGED << exec_args, views >>
    /\ UNCHANGED << prunerVars, prev_partitions, cacheVars, selectorVars,
                    typesVars >>

\* Lines 52-57: without files execute returns an empty DataFrame.
FilePaths ==
    /\ exec_pc = "paths"
    /\ file_paths' = GetFilePaths(exec_args.pruning_result.partitions_to_scan,
                                  table_dir)
    /\ IF file_paths' = <<>>
       THEN /\ exec_result' = DataFrame(<<>>)
            /\ exec_pc' = "returned"
       ELSE /\ exec_result' = exec_result
            /\ exec_pc' = "register"
    /\ UNCHANGED << exec_args, views >>
    /\ UNCHANGED << prunerVars, prev_partitions, cacheVars, selectorVars,
                    typesVars >>

\* Line 60, _register_table: conn.execute of the CREATE VIEW statement, not
\* inside a try; what the engine raises leaves execute as it is.
RegisterTable(unreadable) ==
    /\ exec_pc = "register"
    /\ IF ~IsViewName(exec_args.table_name)
       THEN /\ exec_result' = Exception("duckdb.ParserException",
                                        <<"Parser Error: syntax error">>)
            /\ exec_pc' = "raised"
            /\ views' = views
       ELSE IF unreadable
       THEN /\ exec_result' = Exception("duckdb.IOException",
                                        <<"IO Error: no Parquet file">>)
            /\ exec_pc' = "raised"
            /\ views' = views
       ELSE /\ views' = { v \in views : v.name # exec_args.table_name }
                           \cup { [name  |-> exec_args.table_name,
                                   files |-> file_paths] }
            /\ exec_pc' = "query"
            /\ exec_result' = exec_result
    /\ UNCHANGED << exec_args, file_paths >>
    /\ UNCHANGED << prunerVars, prev_partitions, cacheVars, selectorVars,
                    typesVars >>

\* Lines 62-67: the query runs inside a try that raises RuntimeError.
RunQuery(engine_fails) ==
    /\ exec_pc = "query"
    /\ IF exec_args.sql.malformed
       THEN /\ exec_result' = ExecutionFailed(
                   Exception("duckdb.ParserException",
                             <<"Parser Error: syntax error">>))
            /\ exec_pc' = "raised"
       ELSE IF engine_fails
       THEN /\ exec_result' = ExecutionFailed(
                   Exception("duckdb.BinderException",
                             <<"Binder Error: column not found">>))
            /\ exec_pc' = "raised"
       ELSE /\ exec_result' = DataFrame(file_paths)
            /\ exec_pc' = "returned"
    /\ UNCHANGED << exec_args, file_paths, views >>
    /\ UNCHANGED << prunerVars, prev_partitions, cacheVars, selectorVars,
                    typesVars >>

\* The call is over; the connection keeps its views.
ExecuteReturn ==
    /\ exec_pc \in {"returned", "raised"}
    /\ exec_pc' = "idle"
    /\ exec_args' = NoneObj
    /\ file_paths' = <<>>
    /\ exec_result' = NoneObj
    /\ UNCHANGED views
    /\ UNCHANGED << prunerVars, prev_partitions, cacheVars, selectorVars,
                    typesVars >>

\* The texts execute is given: one the engine cannot parse, one it can.
ExecuteTexts == { Sql(TRUE, NoneObj), Sql(FALSE, Select(NoneObj)) }

\* The pruning results execute is given: what a prune without predicates
\* returns for the table directory, or a part of it.
ExecuteResults ==
    { PruningResult(SubSeq(DiscoverPartitions(table_dir), 1, k),
                    DiscoverPartitions(table_dir),
                    PredicateExtractionResult(<<>>, sales, FALSE)) :
        k \in 0..Len(DiscoverPartitions(table_dir)) }

\* The names a table is registered under.
ExecuteNames == { sales, sales \o <<"-", "2">> }

\* What another program leaves in a partition directory.
FileLists ==
    { <<>>, <<File(BParquet, 2), File(CCsv, 1)>>,
      <<File(AParquet, 5), File(BParquet, 2)>> }

\* Another program writes and removes files of a partition directory after
\* the pruning result was made and before execute lists the files.
WriteFiles(at, files) ==
    /\ exec_pc = "paths"
    /\ table_dir[at].is_dir
    /\ table_dir[at].files # files
    /\ table_dir' = [table_dir EXCEPT ![at].files = files]
    /\ UNCHANGED << table_exists, pc, table_name, sql, schema, ast,
                    optimized, extraction, all_partitions, result, raised,
                    summary, fs_read, warned >>
    /\ UNCHANGED << prev_partitions, outsideVars >>

NextBackend ==
    \/ \E q \in ExecuteTexts, r \in ExecuteResults, name \in ExecuteNames :
          StartExecute(q, r, name)
    \/ FilePaths
    \/ \E unreadable \in BOOLEAN : RegisterTable(unreadable)
    \/ \E engine_fails \in BOOLEAN : RunQuery(engine_fails)
    \/ ExecuteReturn

SpecBackend == Init /\ [][NextBackend]_vars

\* execute over a table directory of up to two date directories that
\* another program writes to.
NextExecution ==
    \/ NextBackend
    \/ \E at \in 1..Len(table_dir), files \in FileLists :
          WriteFiles(at, files)

InitExecution ==
    /\ table_exists = TRUE
    /\ table_dir \in { Listing(S) : S \in SUBSET {1, 3} }
    /\ PrunerIdle
    /\ BackendIdle
    /\ CacheEmpty
    /\ SelectorIdle
    /\ TypesIdle

SpecExecution == InitExecution /\ [][NextExecution]_vars

----------------------------------------------------------------------------
(* The result cache: get, put, invalidate over a store bounded by          *)
(* MaxSize, with a time to live per entry and counters.  The store is kept *)
(* in the order of use, the least recently used entry first.  Every        *)
(* operation and its answer is appended to cache_log.                      *)

\* The capacity of the cache.
MaxSize == 2

\* The operations of one run of the cache.
MaxOps == 4

Fingerprints == {"A", "B", "C"}
Ttls         == {0, 1}

CacheEntry(fingerprint, res, created_at, expires_at) ==
    [fingerprint |-> fingerprint, result |-> res,
     created_at |-> created_at, expires_at |-> expires_at]

\* One line of cache_log: the operation, its arguments, the time, and its
\* answer: "hit" with the result, "miss", "stored" or "invalidated"; removed
\* holds the fingerprints the operation took out of the store and why says
\* what for.
Logged(op, fingerprint, ttl, at, answer, res, removed, why) ==
    [op |-> op, fingerprint |-> fingerprint, ttl |-> ttl, at |-> at,
     answer |-> answer, result |-> res, removed |-> removed, why |-> why]

\* The place of a fingerprint's entry in the store, 0 if it has none.
Position(store, fingerprint) ==
    IF \E i \in 1..Len(store) : store[i].fingerprint = fingerprint
    THEN CHOOSE i \in 1..Len(store) : store[i].fingerprint = fingerprint
    ELSE 0

Without(store, i) == SubSeq(store, 1, i - 1) \o SubSeq(store, i + 1, Len(store))

\* An entry is past its time to live.
Expired(entry, now) == now >= entry.expires_at

\* A hit, had it left the entry where it was in the order of use.
Touch_KeepsPlace(store, i) == store

\* A hit makes the entry the most recently used.
Touch(store, i) == Without(store, i) \o << store[i] >>

\* An insertion, had it never evicted.
MakeRoom_Never(store) == store

\* An insertion into a full store evicts the least recently used entry.
MakeRoom(store) == IF Len(store) >= MaxSize THEN Tail(store) ELSE store

\* A put on a resident fingerprint, had it kept the entry it found.
Replace_KeepsOld(store, i, entry) == Touch(store, i)

\* A put on a resident fingerprint replaces its entry, as the most recently
\* used.
Replace(store, i, entry) == Without(store, i) \o << entry >>

\* An expiration, had it been counted as an eviction.
CountExpiration_AsEviction(stats) ==
    [stats EXCEPT !.total_requests = @ + 1, !.misses = @ + 1,
                  !.evictions = @ + 1]

\* The counters after a lookup that found an expired entry.
CountExpiration(stats) ==
    [stats EXCEPT !.total_requests = @ + 1, !.misses = @ + 1,
                  !.expirations = @ + 1]

CountMiss(stats) ==
    [stats EXCEPT !.total_requests = @ + 1, !.misses = @ + 1]

CountHit(stats) ==
    [stats EXCEPT !.total_requests = @ + 1, !.hits = @ + 1]

\* stats(): the counters, the current size and the configured size.
CacheStatistics(store, stats) ==
    [total_requests |-> stats.total_requests, hits |-> stats.hits,
     misses |-> stats.misses, evictions |-> stats.evictions,
     expirations |-> stats.expirations,
     invalidations |-> stats.invalidations,
     size |-> Len(store), max_size |-> MaxSize]

\* get(fingerprint): a miss without an entry; a miss that removes the entry
\* if it is expired; else a hit.
GetAt(fingerprint, i) ==
    IF i = 0
    THEN /\ cache_store' = cache_store
         /\ cache_stats' = CountMiss(cache_stats)
         /\ cache_log' = Append(cache_log,
               Logged("get", fingerprint, 0, clock, "miss", 0, {}, "none"))
    ELSE IF Expired(cache_store[i], clock)
    THEN /\ cache_store' = Without(cache_store, i)
         /\ cache_stats' = CountExpiration(cache_stats)
         /\ cache_log' = Append(cache_log,
               Logged("get", fingerprint, 0, clock, "miss", 0,
                      {fingerprint}, "expired"))
    ELSE /\ cache_store' = Touch(cache_store, i)
         /\ cache_stats' = CountHit(cache_stats)
         /\ cache_log' = Append(cache_log,
               Logged("get", fingerprint, 0, clock, "hit",
                      cache_store[i].result, {}, "none"))

Get(fingerprint) ==
    /\ Len(cache_log) < MaxOps
    /\ GetAt(fingerprint, Position(cache_store, fingerprint))
    /\ UNCHANGED clock
    /\ UNCHANGED << prunerVars, prev_partitions, backendVars, selectorVars,
                    typesVars >>

\* put(fingerprint, result, ttl): replaces the fingerprint's entry, or
\* inserts one after making room.
PutAt(entry, ttl, i) ==
    IF i # 0
    THEN /\ cache_store' = Replace(cache_store, i, entry)
         /\ cache_stats' = cache_stats
         /\ cache_log' = Append(cache_log,
               Logged("put", entry.fingerprint, ttl, clock, "stored",
                      entry.result, {}, "none"))
    ELSE /\ cache_store' = MakeRoom(cache_store) \o << entry >>
         /\ IF Len(MakeRoom(cache_store)) < Len(cache_store)
            THEN /\ cache_stats' = [cache_stats EXCEPT !.evictions = @ + 1]
                 /\ cache_log' = Append(cache_log,
                       Logged("put", entry.fingerprint, ttl, clock, "stored",
                              entry.result,
                              {Head(cache_store).fingerprint}, "evicted"))
            ELSE /\ cache_stats' = cache_stats
                 /\ cache_log' = Append(cache_log,
                       Logged("put", entry.fingerprint, ttl, clock, "stored",
                              entry.result, {}, "none"))

\* The result stored is named by the number of the operation that stores
\* it: no two puts store the same result.
Put(fingerprint, ttl) ==
    /\ Len(cache_log) < MaxOps
    /\ PutAt(CacheEntry(fingerprint, Len(cache_log) + 1, clock, clock + ttl),
             ttl, Position(cache_store, fingerprint))
    /\ UNCHANGED clock
    /\ UNCHANGED << prunerVars, prev_partitions, backendVars, selectorVars,
                    typesVars >>

\* invalidate(matching): removes the entries of the matching fingerprints
\* and counts them.
Invalidate(matching) ==
    /\ Len(cache_log) < MaxOps
    /\ cache_store' = SelectSeq(cache_store,
                                LAMBDA e : e.fingerprint \notin matching)
    /\ cache_stats' =
          [cache_stats EXCEPT !.invalidations =
              @ + Len(cache_store) - Len(cache_store')]
    /\ cache_log' = Append(cache_log,
          Logged("invalidate", "", 0, clock, "invalidated", 0,
                 { cache_store[i].fingerprint : i \in
                      { j \in 1..Len(cache_store) :
                          cache_store[j].fingerprint \in matching } },
                 "invalidated"))
    /\ UNCHANGED clock
    /\ UNCHANGED << prunerVars, prev_partitions, backendVars, selectorVars,
                    typesVars >>

\* Time passes.
Tick ==
    /\ Len(cache_log) < MaxOps
    /\ clock' = clock + 1
    /\ cache_log' = Append(cache_log,
          Logged("tick", "", 0, clock, "none", 0, {}, "none"))
    /\ UNCHANGED << cache_store, cache_stats >>
    /\ UNCHANGED << prunerVars, prev_partitions, backendVars, selectorVars,
                    typesVars >>

NextCache ==
    \/ \E f \in Fingerprints : Get(f)
    \/ \E f \in Fingerprints, ttl \in Ttls : Put(f, ttl)
    \/ \E matching \in { {f} : f \in Fingerprints } \cup { Fingerprints } :
          Invalidate(matching)
    \/ Tick

\* A router over an empty table directory: no call open, a new cache, no
\* selection.
InitRouter ==
    /\ table_exists = TRUE
    /\ table_dir = <<>>
    /\ PrunerIdle
    /\ BackendIdle
    /\ CacheEmpty
    /\ SelectorIdle
    /\ TypesIdle

SpecCache == InitRouter /\ [][NextCache]_vars

----------------------------------------------------------------------------
(* The cost-based backend selector: one CostEstimate per candidate that    *)
(* supports the query, and the choice among them.  The memory estimate and *)
(* the reasoning text of a CostEstimate play no part in the choice and are *)
(* left out.                                                               *)

\* core/types.py: Backend.
Backends == {"duckdb", "spark", "polars"}

\* The fixed preference order: the embedded engines before the distributed
\* one.
PreferenceOrder == <<"duckdb", "polars", "spark">>

Rank(backend) ==
    CHOOSE i \in 1..Len(PreferenceOrder) : PreferenceOrder[i] = backend

\* The largest scan cost of a candidate.
MaxCost == 1

\* core/types.py: CostEstimate; estimated_time_sec is the sum of the three
\* costs.
CostEstimate(backend, scan_cost, compute_cost, overhead_cost) ==
    [backend |-> backend,
     estimated_time_sec |-> scan_cost + compute_cost + overhead_cost,
     scan_cost |-> scan_cost, compute_cost |-> compute_cost,
     overhead_cost |-> overhead_cost]

\* The comparison, had it gone from the time straight to the preference
\* order.
Better_IgnoresOverhead(a, b) ==
    \/ a.estimated_time_sec < b.estimated_time_sec
    \/ /\ a.estimated_time_sec = b.estimated_time_sec
       /\ Rank(a.backend) < Rank(b.backend)

\* Candidate a is chosen before candidate b: by the time, then by the
\* overhead, then by the preference order.
Better(a, b) ==
    \/ a.estimated_time_sec < b.estimated_time_sec
    \/ /\ a.estimated_time_sec = b.estimated_time_sec
       /\ a.overhead_cost < b.overhead_cost
    \/ /\ a.estimated_time_sec = b.estimated_time_sec
       /\ a.overhead_cost = b.overhead_cost
       /\ Rank(a.backend) < Rank(b.backend)

\* The better of a candidate and the best of the others.
Pick(a, b) == IF Better(a, b) THEN a ELSE b

\* The best of a list of candidates that is not empty.
RECURSIVE SelectBest(_)
SelectBest(candidates) ==
    IF Len(candidates) = 1 THEN candidates[1]
    ELSE Pick(Head(candidates), SelectBest(Tail(candidates)))

\* The lists of candidates: backends that support the query, in the order
\* the caller names them.
CandidateLists ==
    { candidates \in UNION { [1..n -> Backends] :
                                n \in 0..Cardinality(Backends) } :
        \A i, j \in 1..Len(candidates) :
            candidates[i] = candidates[j] => i = j }

\* What the selector reads of a PruningResult: total_size_bytes and
\* total_files, in units.
Volumes == {0, 1} \X {0, 1}
Within(r1, r2) == r1[1] <= r2[1] /\ r1[2] <= r2[2]

\* The cost profile of a backend for one query shape: the scan cost at
\* every volume, the compute cost, the overhead.
Profile(scan, compute_cost, overhead_cost) ==
    [scan |-> scan, compute_cost |-> compute_cost,
     overhead_cost |-> overhead_cost]

\* The scan costs that are monotonic in the byte volume and the file
\* count.
ScanCosts ==
    { scan \in [Volumes -> 0..MaxCost] :
        \A r1, r2 \in Volumes : Within(r1, r2) => scan[r1] <= scan[r2] }

\* The profiles, and those whose scan cost is the same at every volume.
Profiles == { Profile(scan, c, o) : scan \in ScanCosts, c \in {0, 1},
                                     o \in {1, 2} }
FlatProfiles == { profile \in Profiles :
                    \A r \in Volumes : profile.scan[r] = profile.scan[<<0, 0>>] }

\* The scan cost, had it been read at the files the pruning took away.
ScanCost_OfPrunedFiles(profile, pruning) ==
    profile.scan[<< pruning[1], 1 - pruning[2] >>]

\* The scan cost of a backend for a pruning result.
ScanCost(profile, pruning) == profile.scan[pruning]

\* The CostEstimate of every candidate for a pruning result.
EstimatesOf(candidates, profiles, pruning) ==
    [i \in 1..Len(candidates) |->
        CostEstimate(candidates[i], ScanCost(profiles[i], pruning),
                     profiles[i].compute_cost, profiles[i].overhead_cost)]

\* Feature names a query can carry.
Features == {"window_functions", "cte"}

\* backends/duckdb_backend.py: supported_features.
DuckDBFeatures ==
    [feature \in {"window_functions", "cte", "recursive_cte",
                  "lateral_join", "pivot", "unpivot"} |-> TRUE]

\* The backends without a class in the repository, and what each of them
\* can declare it lacks.
OtherBackends == Backends \ {"duckdb"}
Lacks == [OtherBackends -> SUBSET Features]

\* supports_feature: DuckDBBackend looks the name up and answers True for a
\* name it does not know; another backend overrides BaseBackend's True with
\* what it declares.
SupportsFeature(backend, feature, lacks) ==
    IF backend = "duckdb"
    THEN IF feature \in DOMAIN DuckDBFeatures
         THEN DuckDBFeatures[feature] ELSE TRUE
    ELSE feature \notin lacks[backend]

\* The check of a backend, had it been left out.
Supports_Unchecked(backend, features, lacks) == TRUE

\* The backend supports every feature present in the query.
Supports(backend, features, lacks) ==
    \A feature \in features : SupportsFeature(backend, feature, lacks)

\* What the caller asks: the candidates, the features present in the query,
\* the backend it forces if it forces one.
Request(candidates, profiles, pruning, features, lacks, forced) ==
    [candidates |-> candidates, profiles |-> profiles, pruning |-> pruning,
     features |-> features, lacks |-> lacks, forced |-> forced]

\* The estimates of the candidates that support the query.
Supporting(all, features, lacks) ==
    SelectSeq(all, LAMBDA e : Supports(e.backend, features, lacks))

\* estimate: the CostEstimate of every candidate that supports the query.
Estimate(candidates, profiles, pruning, features, lacks) ==
    /\ selected.status = "idle"
    /\ request' = Request(candidates, profiles, pruning, features, lacks,
                          "none")
    /\ estimates' = Supporting(EstimatesOf(candidates, profiles, pruning),
                               features, lacks)
    /\ selected' = [status |-> "estimated", estimate |-> NoneObj]
    /\ UNCHANGED << prunerVars, prev_partitions, backendVars, cacheVars,
                    typesVars >>

\* The caller forces a backend: no estimate, no comparison, the check of
\* the features only.
ForceBackend(backend, features, lacks) ==
    /\ selected.status = "idle"
    /\ request' = Request(<<>>, <<>>, << 0, 0 >>, features, lacks, backend)
    /\ estimates' = <<>>
    /\ selected' = [status |-> IF Supports(backend, features, lacks)
                               THEN "forced" ELSE "UnsupportedQuery",
                    estimate |-> NoneObj]
    /\ UNCHANGED << prunerVars, prev_partitions, backendVars, cacheVars,
                    typesVars >>

\* select: the best candidate; UnsupportedQuery without candidates.
SelectBackend ==
    /\ selected.status = "estimated"
    /\ selected' = IF estimates = <<>>
                   THEN [status |-> "UnsupportedQuery", estimate |-> NoneObj]
                   ELSE [status |-> "selected",
                         estimate |-> SelectBest(estimates)]
    /\ UNCHANGED << request, estimates >>
    /\ UNCHANGED << prunerVars, prev_partitions, backendVars, cacheVars,
                    typesVars >>

\* The selection is over.
SelectorReturn ==
    /\ selected.status \in {"selected", "forced", "UnsupportedQuery"}
    /\ request' = NoRequest
    /\ estimates' = <<>>
    /\ selected' = [status |-> "idle", estimate |-> NoneObj]
    /\ UNCHANGED << prunerVars, prev_partitions, backendVars, cacheVars,
                    typesVars >>

\* A caller asks only when no selection is open.
SelectorCalled == selected.status = "idle"

NextSelector ==
    \/ /\ SelectorCalled
       /\ \E candidates \in CandidateLists :
             \E profiles \in [1..Len(candidates) -> FlatProfiles] :
                \E features \in SUBSET Features : \E lacks \in Lacks :
                   Estimate(candidates, profiles, << 0, 0 >>, features,
                            lacks)
    \/ /\ SelectorCalled
       /\ \E backend \in Backends :
             \E features \in SUBSET Features : \E lacks \in Lacks :
                ForceBackend(backend, features, lacks)
    \/ SelectBackend
    \/ SelectorReturn

SpecSelector == InitRouter /\ [][NextSelector]_vars

\* The selection over pruning results of every volume, for one or two
\* candidates and a query with or without a feature spark lacks.
CostCandidateLists == { candidates \in CandidateLists : Len(candidates) <= 2 }
CostFeatures == { {}, {"cte"} }
CostLacks == [b \in OtherBackends |-> IF b = "spark" THEN {"cte"} ELSE {}]

NextCost ==
    \/ /\ SelectorCalled
       /\ \E candidates \in CostCandidateLists :
             \E profiles \in [1..Len(candidates) -> Profiles] :
                \E pruning \in Volumes : \E features \in CostFeatures :
                   Estimate(candidates, profiles, pruning, features,
                            CostLacks)
    \/ SelectBackend
    \/ SelectorReturn

SpecCost == InitRouter /\ [][NextCost]_vars

----------------------------------------------------------------------------
(* Properties.                                                             *)

Returned == pc \in {"done", "reported"}

\* The condition of the statement's WHERE clause, NoneObj without one.
Condition ==
    IF sql = NoneObj \/ sql.malformed THEN NoneObj
    ELSE IF sql.statement.where = NoneObj THEN NoneObj
    ELSE sql.statement.where.this

\* A discovered partition is selected: it is among partitions_to_scan.
Selected(partition) ==
    \E i \in 1..Len(result.partitions_to_scan) :
        result.partitions_to_scan[i] = partition

Excluded ==
    { all_partitions[i] : i \in 1..Len(all_partitions) }
    \ { result.partitions_to_scan[i] : i \in 1..Len(result.partitions_to_scan) }

\* The type the schema of the call declares for a column, NoType if none.
ColumnType(name) ==
    IF schema.given /\ Declares(schema, name)
    THEN DeclaredType(schema, name) ELSE NoType

\* op holds between two values of one domain.
Holds(op, a, b) ==
    CASE op = "EQ"  -> PyEq(a, b)
      [] op = "NEQ" -> ~PyEq(a, b)
      [] op = "GT"  -> PyLess(b, a) = "T"
      [] op = "GTE" -> PyLess(a, b) = "F"
      [] op = "LT"  -> PyLess(a, b) = "T"
      [] op = "LTE" -> PyLess(b, a) = "F"

\* SQL's answer to "column op literal" for a row whose column, of type ty,
\* holds the text value: dates compare as dates, numbers as numbers (a
\* number literal compares numerically also without a declared type), the
\* rest as text.  TRUE where the answer is not known from the texts.
SqlCompare(op, ty, value, literal) ==
    IF ty = DATE
    THEN (IsIsoDate(value) /\ IsIsoDate(literal.this))
            => Holds(op, FromIsoFormat(value).v, FromIsoFormat(literal.this).v)
    ELSE IF ty \in {INT, DOUBLE} \/ (ty = NoType /\ ~literal.is_string)
    THEN (IsDecimalText(value) /\ IsDecimalText(literal.this))
            => Holds(op, DecimalOf(value), DecimalOf(literal.this))
    ELSE Holds(op, PyStr(value), PyStr(literal.this))

\* A row whose column key holds value may satisfy the condition e.
RECURSIVE MayMatch(_, _, _)
MayMatch(e, key, value) ==
    IF e.kind = "And"
    THEN MayMatch(e.this, key, value) /\ MayMatch(e.expression, key, value)
    ELSE IF e.kind = "Or"
    THEN MayMatch(e.this, key, value) \/ MayMatch(e.expression, key, value)
    ELSE IF e.kind = "Paren" THEN MayMatch(e.this, key, value)
    ELSE IF e.kind \notin (OrderingKinds \cup {"In"}) THEN TRUE
    ELSE IF e.this.kind # "Column" \/ e.this.name # key THEN TRUE
    ELSE IF e.this.table \notin {<<>>, table_name} THEN TRUE
    ELSE IF e.kind = "In"
    THEN \E i \in 1..Len(e.expressions) :
            e.expressions[i].kind = "Literal"
               => SqlCompare("EQ", ColumnType(key), value, e.expressions[i])
    ELSE IF e.expression.kind = "Null" THEN FALSE
    ELSE IF e.expression.kind # "Literal" THEN TRUE
    ELSE SqlCompare(e.kind, ColumnType(key), value, e.expression)

\* C1: soundness of pruning: when the extraction is not complex, no
\* partition left out of partitions_to_scan holds a row the WHERE clause
\* can match.
C1_Soundness ==
    (Returned /\ ~extraction.is_complex /\ Condition # NoneObj)
        => \A p \in Excluded :
              ~MayMatch(Condition, p.partition_key, p.partition_value)

\* A tree holds an Or or a Not somewhere.
RECURSIVE ContainsOrNot(_)
ContainsOrNot(e) ==
    \/ e.kind \in {"Or", "Not"}
    \/ (e.kind \in BinaryKinds
          /\ (ContainsOrNot(e.this) \/ ContainsOrNot(e.expression)))
    \/ (e.kind \in {"Paren", "In"} /\ ContainsOrNot(e.this))

PredicatesOn(column) ==
    { extraction.predicates[j] : j \in
        { k \in 1..Len(extraction.predicates) :
            extraction.predicates[k].column = column } }

\* C3: the filtering rule: with a non-complex extraction that has
\* predicates, a discovered partition is selected if and only if no
\* predicate is on its key, or every predicate on its key evaluates true
\* against its raw value.
C3_FilteringRule ==
    (Returned /\ ~extraction.is_complex /\ extraction.predicates # <<>>)
        => \A i \in 1..Len(all_partitions) :
              Selected(all_partitions[i])
                 <=> \/ PredicatesOn(all_partitions[i].partition_key) = {}
                     \/ \A q \in PredicatesOn(all_partitions[i].partition_key) :
                           Evaluate(q, PyStr(all_partitions[i].partition_value)).v

\* A range of two predicates on the key selected one partition, excluded
\* another, and kept a partition of another key.
C3_Witness ==
    /\ pc = "done"
    /\ ~extraction.is_complex
    /\ Len(extraction.predicates) = 2
    /\ extraction.predicates[1].column = date
    /\ extraction.predicates[2].column = date
    /\ Len(all_partitions) = 3
    /\ Len(result.partitions_to_scan) = 2
    /\ \E i \in 1..2 : result.partitions_to_scan[i].partition_key = year
    /\ \E i \in 1..2 : result.partitions_to_scan[i].partition_key = date

\* The predicates evaluate was, or is about to be, called with for a
\* partition: those on its key, when a filter runs.
Evaluated(partition) ==
    IF extraction = NoneObj \/ extraction.predicates = <<>>
       \/ extraction.is_complex
    THEN {}
    ELSE PredicatesOn(partition.partition_key)

\* A conversion of _convert_types fails for the predicate and the value.
ConversionFails(q, value) ==
    /\ q.sql_type # NoType
    /\ ConvertTypes(q.sql_type, PyStr(value), q.value).exc # "none"

\* C4: evaluate is conservative on failure: it never raises, and answers
\* true when a conversion fails.
C4_EvaluateNeverRaises ==
    (pc \in {"filter", "done", "reported", "raised"} /\ extraction # NoneObj)
        => \A i \in 1..Len(all_partitions) :
              \A q \in Evaluated(all_partitions[i]) :
                 /\ Evaluate(q, PyStr(all_partitions[i].partition_value)).exc
                       = "none"
                 /\ ConversionFails(q, all_partitions[i].partition_value)
                       => Evaluate(q, PyStr(all_partitions[i].partition_value)).v

\* The extraction gives prune nothing to filter with.
NothingToFilter ==
    \/ Condition = NoneObj
    \/ extraction.predicates = <<>>
    \/ extraction.is_complex

\* C5: no filtering without usable predicates: without a WHERE clause,
\* without predicates or with a complex clause, prune returns every
\* discovered partition, and no evaluation of a predicate can have failed.
C5_NoFilterWithoutPredicates ==
    /\ (Returned /\ NothingToFilter)
          => /\ result.partitions_to_scan = all_partitions
             /\ PartitionsScanned(result) = result.total_partitions
    /\ (pc = "raised" /\ extraction # NoneObj /\ NothingToFilter)
          => raised = "FileNotFoundError"

\* A complex clause with a typed predicate met a partition whose value the
\* declared type cannot hold, and prune returned everything.
C5_Witness ==
    /\ pc = "done"
    /\ extraction.is_complex
    /\ Len(all_partitions) = 3
    /\ \E i \in 1..Len(all_partitions) :
          \E j \in 1..Len(extraction.predicates) :
             /\ extraction.predicates[j].column
                   = all_partitions[i].partition_key
             /\ ConversionFails(extraction.predicates[j],
                                all_partitions[i].partition_value)

\* a is b with some elements left out, the order kept.
RECURSIVE IsSubsequence(_, _)
IsSubsequence(a, b) ==
    IF a = <<>> THEN TRUE
    ELSE IF b = <<>> THEN FALSE
    ELSE IF Head(a) = Head(b) THEN IsSubsequence(Tail(a), Tail(b))
    ELSE IsSubsequence(a, Tail(b))

\* C6: the subset invariant: partitions_to_scan holds only partitions of
\* this call's discovery, each at most once and in discovery order, so
\* partitions_scanned <= total_partitions.
C6_SubsetInvariant ==
    Returned
        => /\ all_partitions = DiscoverPartitions(table_dir)
           /\ IsSubsequence(result.partitions_to_scan, all_partitions)
           /\ \A i, j \in 1..Len(result.partitions_to_scan) :
                 result.partitions_to_scan[i] = result.partitions_to_scan[j]
                    => i = j
           /\ PartitionsScanned(result) <= result.total_partitions

\* A filter kept two of three discovered partitions.
C6_Witness ==
    /\ pc = "done"
    /\ ~extraction.is_complex
    /\ extraction.predicates # <<>>
    /\ Len(all_partitions) = 3
    /\ Len(result.partitions_to_scan) = 2
    /\ result.partitions_to_scan[1] = all_partitions[1]
    /\ result.partitions_to_scan[2] = all_partitions[3]

\* The bytes and the files of the first n partitions of a sequence.
RECURSIVE BytesUpTo(_, _)
BytesUpTo(seq, n) ==
    IF n = 0 THEN 0 ELSE seq[n].size_bytes + BytesUpTo(seq, n - 1)

RECURSIVE FilesUpTo(_, _)
FilesUpTo(seq, n) ==
    IF n = 0 THEN 0 ELSE seq[n].file_count + FilesUpTo(seq, n - 1)

\* C7: totals: total_size_bytes and total_files sum over the selected
\* partitions only; total_partitions counts all discovered partitions.
C7_Totals ==
    Returned
        => /\ result.total_size_bytes
                 = BytesUpTo(result.partitions_to_scan,
                             Len(result.partitions_to_scan))
           /\ result.total_files
                 = FilesUpTo(result.partitions_to_scan,
                             Len(result.partitions_to_scan))
           /\ result.total_partitions = Len(all_partitions)

\* A result that left out a partition holding files.
C7_Witness ==
    /\ pc = "done"
    /\ Len(all_partitions) = 3
    /\ Len(result.partitions_to_scan) = 1
    /\ result.total_files = 2
    /\ result.total_size_bytes = 7
    /\ result.total_partitions = 3

\* C8: the derived metrics: pruning_ratio is 1 - scanned/total and
\* speedup_estimate is total/scanned, 1.0 when nothing is scanned; neither
\* divides by zero, also for a table without partitions.
C8_DerivedMetrics ==
    pc = "reported"
        => /\ summary.pruning_ratio.exc = "none"
           /\ summary.speedup_estimate.exc = "none"
           /\ result.total_partitions > 0
                 => summary.pruning_ratio.num * result.total_partitions
                       = (result.total_partitions - summary.partitions_scanned)
                            * summary.pruning_ratio.den
           /\ summary.partitions_scanned > 0
                 => summary.speedup_estimate.num * summary.partitions_scanned
                       = result.total_partitions * summary.speedup_estimate.den
           /\ summary.partitions_scanned = 0
                 => summary.speedup_estimate.num = summary.speedup_estimate.den

\* The metrics were read from a result that scans nothing of a table with
\* partitions.
C8_Witness ==
    /\ pc = "reported"
    /\ result.total_partitions = 2
    /\ summary.partitions_scanned = 0

\* An entry of the table directory is a partition directory: a directory
\* whose name holds "=" and that holds a Parquet file.
IsPartitionDir(entry) ==
    /\ entry.is_dir
    /\ \E i \in 1..Len(entry.name) : entry.name[i] = "="
    /\ \E i \in 1..Len(entry.files) :
          EndsWith(entry.files[i].name, ParquetSuffix)

\* C9: the discovery rule: discovery yields one PartitionInfo for exactly
\* the partition directories of the table root; the key is the text before
\* the first "=" of the name and the value everything after it.
C9_DiscoveryRule ==
    pc \in {"filter", "done", "reported"}
        => /\ \A i \in 1..Len(table_dir) :
                 IsPartitionDir(table_dir[i])
                    <=> \E j \in 1..Len(all_partitions) :
                           all_partitions[j].path = table_dir[i].name
           /\ \A j \in 1..Len(all_partitions) :
                 /\ \E i \in 1..Len(table_dir) :
                       all_partitions[j].path = table_dir[i].name
                 /\ all_partitions[j].partition_key \o <<"=">>
                       \o all_partitions[j].partition_value
                          = all_partitions[j].path
                 /\ \A k \in 1..Len(all_partitions[j].partition_key) :
                       all_partitions[j].partition_key[k] # "="
           /\ \A j, k \in 1..Len(all_partitions) :
                 all_partitions[j].path = all_partitions[k].path => j = k

\* Discovery met a plain file named key=value, a directory without Parquet
\* files and a directory whose value holds "=", and kept only the last.
C9_Witness ==
    /\ pc = "filter"
    /\ Len(table_dir) = 3
    /\ \E i \in 1..3 : ~table_dir[i].is_dir
    /\ \E i \in 1..3 : table_dir[i].is_dir /\ ~IsPartitionDir(table_dir[i])
    /\ Len(all_partitions) = 1
    /\ all_partitions[1].partition_value = <<"1", "=", "1">>

\* C10: table-not-found is the only hard failure: a parseable query
\* against an existing table root makes prune return, a missing root makes
\* it fail with table-not-found, and nothing else leaves prune.
C10_OnlyTableNotFound ==
    /\ pc = "raised"
          => \/ raised = "ValueError: Failed to parse SQL"
             \/ raised = "FileNotFoundError" /\ ~table_exists
    /\ (Returned /\ ~sql.malformed) => table_exists

\* The exception SQLParser.parse raises.
ParseError == "ValueError: Failed to parse SQL"

\* C11: parse failure ordering: a text that cannot be parsed makes prune
\* fail with the parse error before anything is optimized or extracted and
\* before the filesystem is asked for the table root, also when that root
\* is missing.
C11_ParseFailsFirst ==
    (pc \notin {"idle", "parse"} /\ sql.malformed)
        => /\ pc = "raised"
           /\ raised = ParseError
           /\ ~fs_read
           /\ optimized = NoneObj
           /\ extraction = NoneObj
           /\ all_partitions = <<>>

\* A malformed query against a missing table root has failed.
C11_Witness ==
    /\ pc = "raised"
    /\ sql.malformed
    /\ ~table_exists
    /\ raised = ParseError

\* C12: an optimization failure degrades: after the warning, the tree
\* optimize returned is the tree it was given, prune has gone on to extract
\* from that tree and to discover, and nothing but a missing table root
\* ends the call with an exception.
C12_OptimizeDegrades ==
    warned
        => /\ optimized = ast
           /\ pc \in {"extract", "discover", "filter", "done", "reported",
                      "raised"}
           /\ pc # "extract"
                 => extraction = ExtractPredicates(ast, table_name)
           /\ pc \in {"filter", "done", "reported", "raised"} => fs_read
           /\ pc = "raised"
                 => raised = "FileNotFoundError" /\ ~table_exists

\* A call returned after a failed optimization that, had it succeeded,
\* would have typed the columns of the predicates.
C12_Witness ==
    /\ warned
    /\ pc = "done"
    /\ schema.given
    /\ AnnotateTypes(ast, schema) # ast
    /\ extraction.predicates # <<>>
    /\ Len(result.partitions_to_scan) < Len(all_partitions)

\* C13: backend failures are tagged: whatever fails while execute runs a
\* query, the registration of the files as the table included, leaves
\* execute as a RuntimeError whose message names the DuckDB backend.
C13_BackendFailuresTagged ==
    exec_pc = "raised"
        => /\ exec_result.type = "RuntimeError"
           /\ exec_result.message[1] = "DuckDB query execution failed: "

\* C14: discovery is idempotent and not cached: a call over a table
\* directory that holds what it held at the previous call discovers the
\* same set of partitions, in whatever order the directory is listed, and
\* total_partitions of every call counts the partition directories the
\* table directory holds at that call.
C14_FreshDiscovery ==
    /\ (pc \in {"filter", "done", "reported"} /\ prev_partitions.known)
          => { all_partitions[i] : i \in 1..Len(all_partitions) }
                = prev_partitions.partitions
    /\ Returned
          => result.total_partitions
                = Cardinality({ i \in 1..Len(table_dir) :
                                   IsPartitionDir(table_dir[i]) })

\* A second call over an unchanged directory of two partitions and an
\* entry that is none, listed in another order than iterdir's first.
C14_Witness ==
    /\ pc = "done"
    /\ prev_partitions.known
    /\ table_dir \notin TableDirs
    /\ Len(table_dir) = 3
    /\ ~IsPartitionDir(table_dir[1])
    /\ result.total_partitions = 2

\* C15: the complexity flag: extract_predicates answers is_complex = true
\* exactly when the condition of the WHERE clause holds an OR or a NOT at
\* any depth; without a WHERE clause it answers no predicates and
\* is_complex = false.
C15_ComplexityFlag ==
    extraction # NoneObj
        => /\ Condition = NoneObj
                 => extraction.predicates = <<>> /\ ~extraction.is_complex
           /\ Condition # NoneObj
                 => (extraction.is_complex <=> ContainsOrNot(Condition))

\* Extraction has flagged a conjunction whose right operand is a NOT, and
\* has still extracted the comparison on its left.
C15_Witness ==
    /\ pc = "discover"
    /\ Condition # NoneObj
    /\ Condition.kind = "And"
    /\ Condition.expression.kind = "Not"
    /\ extraction.is_complex
    /\ Len(extraction.predicates) = 1

\* What cache_log says, without looking at the store.  The fingerprints
\* resident after the first k operations: those put and not removed since.
RECURSIVE ResidentAfter(_, _)
ResidentAfter(log, k) ==
    IF k = 0 THEN {}
    ELSE (ResidentAfter(log, k - 1) \ log[k].removed)
            \cup (IF log[k].op = "put" THEN {log[k].fingerprint} ELSE {})

\* The last of the first k operations that used a fingerprint's entry (a
\* put, or a get that hit), 0 if none did.
LastAccess(log, fingerprint, k) ==
    LET uses == { j \in 1..k :
                    /\ log[j].fingerprint = fingerprint
                    /\ log[j].op = "put" \/ log[j].answer = "hit" }
    IN IF uses = {} THEN 0 ELSE CHOOSE j \in uses : \A m \in uses : m <= j

\* When the entry a fingerprint has after the first k operations expires.
ExpiresAt(log, fingerprint, k) ==
    LET puts == { j \in 1..k : log[j].op = "put"
                                 /\ log[j].fingerprint = fingerprint }
        last == CHOOSE j \in puts : \A m \in puts : m <= j
    IN log[last].at + log[last].ttl

\* The operations that answered, or removed entries, in some way.
Answered(answer) ==
    { k \in 1..Len(cache_log) : cache_log[k].answer = answer }
RemovedAs(why) ==
    { k \in 1..Len(cache_log) : cache_log[k].why = why }

\* C16: the cache round trip: a get right after a put of the same
\* fingerprint, before the time to live of the put is over, answers the
\* result that was put, and is counted as a hit.
C16_RoundTrip ==
    /\ \A k \in 1..(Len(cache_log) - 1) :
          ( /\ cache_log[k].op = "put"
            /\ cache_log[k + 1].op = "get"
            /\ cache_log[k + 1].fingerprint = cache_log[k].fingerprint
            /\ cache_log[k + 1].at < cache_log[k].at + cache_log[k].ttl )
             => /\ cache_log[k + 1].answer = "hit"
                /\ cache_log[k + 1].result = cache_log[k].result
    /\ cache_stats.hits = Cardinality(Answered("hit"))

\* A fingerprint was put twice, with two results, and read back at once.
C16_Witness ==
    /\ Len(cache_log) = 3
    /\ cache_log[1].op = "put"
    /\ cache_log[2].op = "put"
    /\ cache_log[2].fingerprint = cache_log[1].fingerprint
    /\ cache_log[3].op = "get"
    /\ cache_log[3].fingerprint = cache_log[1].fingerprint
    /\ cache_log[3].answer = "hit"
    /\ cache_log[3].result = 2
    /\ cache_stats.hits = 1

\* C17: cache expiration: a get on a resident entry whose expires_at has
\* passed answers a miss and removes the entry; the expirations counter
\* counts these gets, one each, and the evictions counter does not.
C17_Expiration ==
    /\ \A k \in 1..Len(cache_log) :
          ( /\ cache_log[k].op = "get"
            /\ cache_log[k].fingerprint \in ResidentAfter(cache_log, k - 1)
            /\ ExpiresAt(cache_log, cache_log[k].fingerprint, k - 1)
                  < cache_log[k].at )
             => /\ cache_log[k].answer = "miss"
                /\ cache_log[k].removed = {cache_log[k].fingerprint}
                /\ cache_log[k].why = "expired"
    /\ cache_stats.expirations = Cardinality(RemovedAs("expired"))
    /\ cache_stats.evictions = Cardinality(RemovedAs("evicted"))
    /\ { cache_store[i].fingerprint : i \in 1..Len(cache_store) }
          = ResidentAfter(cache_log, Len(cache_log))

\* An entry put for one unit of time was looked up two units later.
C17_Witness ==
    /\ Len(cache_log) = 4
    /\ cache_log[1].op = "put"
    /\ cache_log[1].ttl = 1
    /\ cache_log[4].op = "get"
    /\ cache_log[4].fingerprint = cache_log[1].fingerprint
    /\ cache_log[4].at = 2
    /\ cache_log[4].answer = "miss"
    /\ cache_stats.expirations = 1
    /\ cache_stats.evictions = 0
    /\ cache_store = <<>>

\* C18: the capacity bound: whatever gets, puts and invalidations were
\* made, the store holds at most MaxSize entries, one per fingerprint, and
\* stats() reports that number as the size.
C18_CapacityBound ==
    /\ Len(cache_store) <= MaxSize
    /\ Cardinality({ cache_store[i].fingerprint : i \in 1..Len(cache_store) })
          = CacheStatistics(cache_store, cache_stats).size
    /\ CacheStatistics(cache_store, cache_stats).size
          <= CacheStatistics(cache_store, cache_stats).max_size

\* More distinct fingerprints were put than the cache holds.
C18_Witness ==
    /\ Len(cache_log) = MaxSize + 1
    /\ \A k \in 1..Len(cache_log) : cache_log[k].op = "put"
    /\ \A j, k \in 1..Len(cache_log) :
          cache_log[j].fingerprint = cache_log[k].fingerprint => j = k
    /\ Len(cache_store) = MaxSize

\* C19: the LRU victim: a put of a fingerprint that is not resident, into
\* a full cache, removes exactly the resident entry whose last use (its
\* put or a get that hit) is the oldest; no other put removes anything; the
\* evictions counter counts these puts, one each.
C19_LruVictim ==
    /\ \A k \in 1..Len(cache_log) :
          cache_log[k].op = "put"
             => IF /\ cache_log[k].fingerprint
                         \notin ResidentAfter(cache_log, k - 1)
                   /\ Cardinality(ResidentAfter(cache_log, k - 1)) >= MaxSize
                THEN /\ cache_log[k].why = "evicted"
                     /\ \E v \in ResidentAfter(cache_log, k - 1) :
                           /\ cache_log[k].removed = {v}
                           /\ \A g \in ResidentAfter(cache_log, k - 1) \ {v} :
                                 LastAccess(cache_log, v, k - 1)
                                    < LastAccess(cache_log, g, k - 1)
                ELSE /\ cache_log[k].why = "none"
                     /\ cache_log[k].removed = {}
    /\ cache_stats.evictions = Cardinality(RemovedAs("evicted"))

\* Capacity 2: A, B and C were put in this order; A was evicted.
C19_Witness ==
    /\ MaxSize = 2
    /\ Len(cache_log) = 3
    /\ cache_log[1].op = "put" /\ cache_log[1].fingerprint = "A"
    /\ cache_log[2].op = "put" /\ cache_log[2].fingerprint = "B"
    /\ cache_log[3].op = "put" /\ cache_log[3].fingerprint = "C"
    /\ cache_log[3].removed = {"A"}
    /\ cache_stats.evictions = 1
    /\ CacheStatistics(cache_store, cache_stats).size = 2

\* The candidates with the least estimated time, and among them those with
\* the least overhead.
Cheapest ==
    { i \in 1..Len(estimates) :
        \A j \in 1..Len(estimates) :
            estimates[i].estimated_time_sec <= estimates[j].estimated_time_sec }
LeastOverhead ==
    { i \in Cheapest :
        \A j \in Cheapest :
            estimates[i].overhead_cost <= estimates[j].overhead_cost }

\* C20: the selection order: the backend selected is a candidate with the
\* least estimated_time_sec; among those, one with the least
\* overhead_cost; among those, the one that comes first in the preference
\* order.
C20_SelectionOrder ==
    selected.status = "selected"
        => \E i \in LeastOverhead :
              /\ selected.estimate = estimates[i]
              /\ \A j \in LeastOverhead :
                    Rank(estimates[i].backend) <= Rank(estimates[j].backend)

\* Three candidates tie on the time, two of them on the least overhead;
\* the one selected was named last.
C20_Witness ==
    /\ selected.status = "selected"
    /\ Len(estimates) = 3
    /\ Cardinality(Cheapest) = 3
    /\ Cardinality(LeastOverhead) = 2
    /\ selected.estimate = estimates[3]
    /\ selected.estimate.backend = "polars"

----------------------------------------------------------------------------
(* Feature support in the selection.                                       *)

\* The features of the query the backend has declared it lacks; DuckDB
\* declares none.
Lacking(backend) ==
    IF backend = "duckdb" THEN {}
    ELSE request.features \cap request.lacks[backend]

\* The selection has answered.
Answered21 == selected.status \in {"selected", "forced", "UnsupportedQuery"}

\* The backend the selection answered with.
Chosen ==
    IF selected.status = "selected" THEN selected.estimate.backend
    ELSE request.forced

\* C21: unsupported queries: the backend selected lacks no feature present
\* in the query; when every candidate lacks one, selection fails with
\* UnsupportedQuery; a forced backend is answered without estimates and
\* fails with UnsupportedQuery exactly when it lacks a feature present.
C21_UnsupportedQueries ==
    /\ selected.status \in {"selected", "forced"} => Lacking(Chosen) = {}
    /\ selected.status = "selected"
          => \E i \in 1..Len(request.candidates) :
                request.candidates[i] = Chosen
    /\ Answered21 /\ request.forced = "none"
          => ( selected.status = "UnsupportedQuery"
               <=> \A i \in 1..Len(request.candidates) :
                      Lacking(request.candidates[i]) # {} )
    /\ Answered21 /\ request.forced # "none"
          => /\ estimates = <<>>
             /\ selected.status = "UnsupportedQuery"
                   <=> Lacking(request.forced) # {}
             /\ selected.status = "forced"
                   <=> Lacking(request.forced) = {}

\* The cheapest candidate was excluded for a feature it lacks and another
\* one selected; or every candidate was excluded; or the forced backend
\* lacks a feature present.
C21_Witness ==
    \/ /\ selected.status = "selected"
       /\ Len(request.candidates) = 3
       /\ Len(estimates) = 1
       /\ request.features = Features
    \/ /\ selected.status = "UnsupportedQuery"
       /\ request.forced = "spark"
       /\ request.lacks["spark"] = {"cte"}
       /\ request.features = Features

----------------------------------------------------------------------------
(* Cost monotonicity.                                                      *)

\* The estimated_time_sec of the backend select chooses for the open
\* request, had the pruning result been another one; -1 when no candidate
\* supports the query.
ChosenTime(pruning) ==
    IF Supporting(EstimatesOf(request.candidates, request.profiles, pruning),
                  request.features, request.lacks) = <<>>
    THEN -1
    ELSE SelectBest(
            Supporting(EstimatesOf(request.candidates, request.profiles,
                                   pruning),
                       request.features, request.lacks)).estimated_time_sec

\* C22: cost monotonicity: the query shape and the candidates fixed, the
\* backend chosen for a pruning result with no more bytes and no more files
\* has an estimated_time_sec that is no larger.
C22_CostMonotonicity ==
    selected.status = "selected"
        => /\ selected.estimate.estimated_time_sec = ChosenTime(request.pruning)
           /\ \A r1 \in Volumes :
                 Within(r1, request.pruning)
                     => ChosenTime(r1) <= selected.estimate.estimated_time_sec

\* With fewer bytes another backend is chosen than with more, and it takes
\* less time.
C22_Witness ==
    /\ selected.status = "selected"
    /\ Len(estimates) = 2
    /\ request.pruning = << 1, 1 >>
    /\ selected.estimate.backend = "spark"
    /\ \E r1 \in Volumes :
          /\ Within(r1, request.pruning)
          /\ ChosenTime(r1) < selected.estimate.estimated_time_sec
          /\ SelectBest(EstimatesOf(request.candidates, request.profiles,
                                    r1)).backend = "duckdb"

----------------------------------------------------------------------------
(* core/types.py called on its own: Predicate.evaluate and                 *)
(* ColumnStatistics.can_satisfy_predicate, each on arguments of every      *)
(* shape a caller can build.                                               *)

\* core/types.py: PredicateOperator.
PredicateOperators ==
    {"EQ", "NEQ", "GT", "GTE", "LT", "LTE", "IN", "NOT_IN", "LIKE",
     "IS_NULL", "IS_NOT_NULL"}

\* Declared types, None among them.
SqlTypes == {NoType, DATE, TIMESTAMP, INT, BIGINT, DOUBLE, VARCHAR}

\* Texts of partition values and of literals.
ValueTexts ==
    {D01, D03, <<"1">>, <<"9">>, <<"1", "0">>, <<"9", ".", "5">>, US}

\* Values of a predicate: a text, a list of texts, None.
PredicateValues ==
    { PyStr(text) : text \in ValueTexts }
    \cup { PyList(<<PyStr(D01), PyStr(D03)>>),
           PyList(<<PyStr(<<"9">>), PyStr(<<"1", "0">>)>>),
           PyList(<<>>),
           PyNone }

Predicates ==
    { Predicate(date, operator, value, sql_type) :
        operator \in PredicateOperators, value \in PredicateValues,
        sql_type \in SqlTypes }

\* core/types.py: ColumnStatistics (null_count and distinct_count play no
\* part in the check and are left out).
ColumnStatistics(column_name, min_value, max_value) ==
    [column_name |-> column_name, min_value |-> min_value,
     max_value |-> max_value]

\* The try block of can_satisfy_predicate, had GT been tested with >=.
RangeCompare_GtAsGte(stats, predicate) ==
    CASE predicate.operator \in {"GT", "GTE"} ->
            PyLessEq(predicate.value, stats.max_value)
      [] predicate.operator = "LT" ->
            PyLess(stats.min_value, predicate.value)
      [] predicate.operator = "LTE" ->
            PyLessEq(stats.min_value, predicate.value)
      [] predicate.operator = "EQ" ->
            IF PyLessEq(stats.min_value, predicate.value) # "T"
            THEN PyLessEq(stats.min_value, predicate.value)
            ELSE PyLessEq(predicate.value, stats.max_value)
      [] OTHER -> "T"

\* The try block of can_satisfy_predicate: "T", "F" or "E" (raised).  The
\* chain min <= v <= max compares v with max only when min <= v is true.
RangeCompare(stats, predicate) ==
    CASE predicate.operator = "GT" ->
            PyLess(predicate.value, stats.max_value)
      [] predicate.operator = "GTE" ->
            PyLessEq(predicate.value, stats.max_value)
      [] predicate.operator = "LT" ->
            PyLess(stats.min_value, predicate.value)
      [] predicate.operator = "LTE" ->
            PyLessEq(stats.min_value, predicate.value)
      [] predicate.operator = "EQ" ->
            IF PyLessEq(stats.min_value, predicate.value) # "T"
            THEN PyLessEq(stats.min_value, predicate.value)
            ELSE PyLessEq(predicate.value, stats.max_value)
      [] OTHER -> "T"

\* ColumnStatistics.can_satisfy_predicate: True for another column, and
\* True when the comparison raises.
CanSatisfyPredicate(stats, predicate) ==
    IF predicate.column # stats.column_name THEN TRUE
    ELSE RangeCompare(stats, predicate) # "F"

\* Minimum and maximum values of a column, and values of a predicate on
\* it: integers, texts, None, a list.
StatValues == { PyInt(1), PyInt(5), PyStr(<<"9">>), PyStr(<<"1", "0">>),
                PyNone }
BoundValues ==
    { PyInt(0), PyInt(1), PyInt(3), PyInt(5), PyInt(7), PyStr(<<"9">>),
      PyStr(<<"1", "0">>), PyStr(<<"9", "9">>), PyNone,
      PyList(<<PyInt(1), PyInt(5)>>) }
Statistics ==
    { ColumnStatistics(year, lo, hi) : lo \in StatValues, hi \in StatValues }
BoundPredicates ==
    { Predicate(column, operator, value, NoType) :
        column \in {year, date}, operator \in PredicateOperators,
        value \in BoundValues }

\* stats.can_satisfy_predicate(predicate)
CallCanSatisfyPredicate(stats, predicate) ==
    /\ types_call = NoneObj
    /\ types_call' = [method |-> "can_satisfy_predicate", self |-> stats,
                      arg |-> predicate]
    /\ types_answer' = Returns(CanSatisfyPredicate(stats, predicate))
    /\ UNCHANGED << prunerVars, prev_partitions, backendVars, cacheVars,
                    selectorVars >>

\* predicate.evaluate(partition_value)
CallEvaluate(predicate, partition_value) ==
    /\ types_call = NoneObj
    /\ types_call' = [method |-> "evaluate", self |-> predicate,
                      arg |-> partition_value]
    /\ types_answer' = Evaluate(predicate, partition_value)
    /\ UNCHANGED << prunerVars, prev_partitions, backendVars, cacheVars,
                    selectorVars >>

\* The call is over.
TypesReturn ==
    /\ types_call # NoneObj
    /\ types_call' = NoneObj
    /\ types_answer' = NoneObj
    /\ UNCHANGED << prunerVars, prev_partitions, backendVars, cacheVars,
                    selectorVars >>

NextTypes ==
    \/ /\ types_call = NoneObj
       /\ \E predicate \in Predicates : \E text \in ValueTexts :
             CallEvaluate(predicate, PyStr(text))
    \/ /\ types_call = NoneObj
       /\ \E stats \in Statistics : \E predicate \in BoundPredicates :
             CallCanSatisfyPredicate(stats, predicate)
    \/ TypesReturn

SpecTypes == InitRouter /\ [][NextTypes]_vars

----------------------------------------------------------------------------
(* Comparison by the declared type.                                        *)

\* The family of a declared type.
Family(sql_type) ==
    IF sql_type \in {DATE, TIMESTAMP} THEN "temporal"
    ELSE IF sql_type \in {INT, BIGINT} THEN "integer"
    ELSE IF sql_type \in {FLOAT, DOUBLE, DECIMAL} THEN "float"
    ELSE "string"

\* A value taken as a value of the family: a date, an integer, a number,
\* a text.
AsFamily(family, x) ==
    IF family = "temporal" THEN IsoIfStr(x)
    ELSE IF family = "integer" THEN PyIntOf(x)
    ELSE IF family = "float" THEN PyFloatOf(x)
    ELSE Ok(PyStrOf(x))

\* The elements of a predicate's value: those of a list, or the value.
Elements(value) ==
    IF value.t = "list" THEN { value.l[i] : i \in 1..Len(value.l) }
    ELSE { value }

\* The partition value and every element of the predicate's value are
\* values of the family.
Comparable(family, partition_value, value) ==
    /\ AsFamily(family, partition_value).exc = "none"
    /\ \A e \in Elements(value) :
          e.t = "str" /\ AsFamily(family, e).exc = "none"

\* The comparison of the two as values of the family.
FamilyHolds(operator, family, partition_value, value) ==
    IF operator \in {"IN", "NOT_IN"}
    THEN (operator = "IN")
            <=> \E e \in Elements(value) :
                   PyEq(AsFamily(family, partition_value).v,
                        AsFamily(family, e).v)
    ELSE Holds(operator, AsFamily(family, partition_value).v,
               AsFamily(family, value).v)

\* C23: type-keyed comparison: evaluate on a predicate with a declared type
\* answers the comparison of the partition value and the predicate's value
\* as dates, as numbers or as texts according to the type, for the six
\* ordering operators on a single value and for IN and NOT IN on a list.
C23_TypeKeyedComparison ==
    ( /\ types_call # NoneObj
      /\ types_call.method = "evaluate"
      /\ types_call.self.sql_type # NoType
      /\ types_call.self.operator
            \in OrderingKinds \cup {"IN", "NOT_IN"}
      /\ types_call.self.operator \in {"IN", "NOT_IN"}
            <=> types_call.self.value.t = "list"
      /\ Comparable(Family(types_call.self.sql_type), types_call.arg,
                    types_call.self.value) )
        => /\ types_answer.exc = "none"
           /\ types_answer.v
                 <=> FamilyHolds(types_call.self.operator,
                                 Family(types_call.self.sql_type),
                                 types_call.arg, types_call.self.value)

----------------------------------------------------------------------------
(* Extraction of predicates from the WHERE clause.                         *)

\* The conjuncts of a condition, left to right.
RECURSIVE Conjuncts(_)
Conjuncts(e) ==
    IF e.kind = "And" THEN Conjuncts(e.this) \o Conjuncts(e.expression)
    ELSE <<e>>

\* A conjunct is a comparison of the closed table whose left operand is a
\* column without a qualifier or qualified to the table of the call.
Eligible(e) ==
    /\ e.kind \in OrderingKinds \cup {"In"}
    /\ e.this.kind = "Column"
    /\ e.this.table \in {<<>>, table_name}

EligibleConjuncts ==
    IF Condition = NoneObj THEN <<>>
    ELSE SelectSeq(Conjuncts(Condition), Eligible)

\* The right-hand side of a comparison: the second operand, and for IN the
\* tuple of its elements.
RightHand(e) == IF e.kind = "In" THEN Tuple(e.expressions) ELSE e.expression

\* extract_predicates has returned.
Extracted == pc \in {"discover", "filter", "done", "reported"}

\* C24: value extraction: the value of every extracted predicate is the
\* literal's value, the list of the element values of an IN tuple, None for
\* NULL, the boolean for a boolean, and the text of any other right-hand
\* side; extraction returns for every right-hand side.
C24_ValueExtraction ==
    /\ (pc = "discover" /\ ~sql.malformed) => extraction # NoneObj
    /\ Extracted
          => \A i \in 1..Len(extraction.predicates) :
                i <= Len(EligibleConjuncts)
                   => extraction.predicates[i].value
                         = ExtractValue(RightHand(EligibleConjuncts[i]))

\* The operator of a comparison of the closed table.
OperatorOf(kind) == IF kind = "In" THEN "IN" ELSE kind

\* C25: conjunction flattening: for a WHERE clause that is not complex, the
\* extracted predicates are, in left-to-right order, one per comparison of
\* the AND chain whose left operand is a column without a qualifier or
\* qualified to the table; the other conjuncts contribute nothing and raise
\* nothing.
C25_ConjunctionFlattening ==
    /\ (Extracted /\ Condition # NoneObj /\ ~extraction.is_complex)
          => /\ Len(extraction.predicates) = Len(EligibleConjuncts)
             /\ \A i \in 1..Len(EligibleConjuncts) :
                   /\ extraction.predicates[i].column
                         = EligibleConjuncts[i].this.name
                   /\ extraction.predicates[i].operator
                         = OperatorOf(EligibleConjuncts[i].kind)
    /\ (pc = "raised" /\ raised \notin {ParseError, "FileNotFoundError"})
          => extraction # NoneObj

\* A chain of three comparisons on two columns gave three predicates in
\* its order; or a chain of a comparison qualified to the table and one
\* qualified to another table gave the first alone.
C25_Witness ==
    /\ Extracted
    /\ ~extraction.is_complex
    /\ \/ /\ Len(Conjuncts(Condition)) = 3
          /\ Len(extraction.predicates) = 3
          /\ extraction.predicates[1].operator = "NEQ"
          /\ extraction.predicates[2].column = year
          /\ extraction.predicates[3].column = date
       \/ /\ Len(Conjuncts(Condition)) = 2
          /\ Conjuncts(Condition)[1].this = Column(date, sales)
          /\ Conjuncts(Condition)[2].this = Column(date, other)
          /\ Len(extraction.predicates) = 1

\* The classes of the closed table.
ClosedTable == {"EQ", "NEQ", "GT", "GTE", "LT", "LTE", "In"}

\* The predicates a condition gives on its own.
Alone(e) == ExtractSimplePredicates(e, table_name)

\* The condition with the types the optimizer has left on its columns.
OptimizedCondition == optimized.where.this

\* C26: the closed operator table: every extracted predicate has one of the
\* operators EQ, NEQ, GT, GTE, LT, LTE, IN; a conjunct of any other class
\* gives no predicate, raises nothing and leaves the predicates of the
\* conjunct beside it as they are without it.
C26_ClosedOperatorTable ==
    (Extracted /\ Condition # NoneObj)
        => /\ \A i \in 1..Len(extraction.predicates) :
                 extraction.predicates[i].operator
                    \in {"EQ", "NEQ", "GT", "GTE", "LT", "LTE", "IN"}
           /\ Condition.kind \notin ClosedTable \cup {"And"}
                 => extraction.predicates = <<>>
           /\ (Condition.kind = "And"
                 /\ Condition.expression.kind \notin ClosedTable \cup {"And"})
                 => extraction.predicates = Alone(OptimizedCondition.this)
           /\ (Condition.kind = "And"
                 /\ Condition.this.kind \notin ClosedTable \cup {"And"})
                 => extraction.predicates = Alone(OptimizedCondition.expression)

\* A comparison beside a LIKE, an IS NULL, a BETWEEN or a function call
\* gave its predicate alone.
C26_Witness ==
    /\ Extracted
    /\ Condition # NoneObj
    /\ Condition.kind = "And"
    /\ Condition.this.kind \in {"Is", "Between", "Anonymous"}
    /\ Condition.expression.kind = "GTE"
    /\ Len(extraction.predicates) = 1
    /\ extraction.predicates[1].operator = "GTE"

----------------------------------------------------------------------------
(* The predicates a PruningResult reports.                                 *)

\* A comparison stands in the AND chain that starts at the root of the
\* condition: every node above it is an And.
RECURSIVE InAndChain(_, _)
InAndChain(e, leaf) ==
    \/ e = leaf
    \/ /\ e.kind = "And"
       /\ InAndChain(e.this, leaf) \/ InAndChain(e.expression, leaf)

\* The comparisons of the closed table anywhere in a condition.
RECURSIVE Comparisons(_)
Comparisons(e) ==
    (IF e.kind \in ClosedTable THEN {e} ELSE {})
    \cup UNION { Comparisons(Children(e)[i]) : i \in 1..Len(Children(e)) }

\* The predicate was built from the comparison.
BuiltFrom(predicate, e) ==
    /\ e.this.kind = "Column"
    /\ predicate.column = e.this.name
    /\ predicate.operator = OperatorOf(e.kind)
    /\ predicate.value = ExtractValue(RightOf(e))

----------------------------------------------------------------------------
(* The check of a predicate against the statistics of a column.            *)

\* a < b, a <= b hold between two values that compare.
Below(a, b)   == PyLess(a, b) = "T"
AtMost(a, b)  == PyLessEq(a, b) = "T"

\* The bound of the predicate excludes the range of the statistics.
Excludes(stats, predicate) ==
    CASE predicate.operator = "GT"  ->
            AtMost(stats.max_value, predicate.value)
      [] predicate.operator = "GTE" ->
            Below(stats.max_value, predicate.value)
      [] predicate.operator = "LT"  ->
            AtMost(predicate.value, stats.min_value)
      [] predicate.operator = "LTE" ->
            Below(predicate.value, stats.min_value)
      [] predicate.operator = "EQ"  ->
            \/ Below(predicate.value, stats.min_value)
            \/ Below(stats.max_value, predicate.value)
      [] OTHER -> FALSE

\* The comparison of the predicate's value with the bound raises.
ComparisonRaises(stats, predicate) ==
    CASE predicate.operator \in {"GT", "GTE"} ->
            PyLess(predicate.value, stats.max_value) = "E"
      [] predicate.operator \in {"LT", "LTE"} ->
            PyLess(stats.min_value, predicate.value) = "E"
      [] predicate.operator = "EQ" ->
            \/ PyLess(stats.min_value, predicate.value) = "E"
            \/ /\ AtMost(stats.min_value, predicate.value)
               /\ PyLess(predicate.value, stats.max_value) = "E"
      [] OTHER -> FALSE

\* C28: the statistics check: can_satisfy_predicate answers false only for
\* a predicate on the column of the statistics whose bound excludes the
\* range from min_value to max_value, and then it does unless a comparison
\* raises; it answers true for another column, for every other operator
\* and whenever the comparison raises.
C28_StatisticsCheck ==
    (types_call # NoneObj /\ types_call.method = "can_satisfy_predicate")
        => /\ types_answer.exc = "none"
           /\ ~types_answer.v
                 => /\ types_call.arg.column = types_call.self.column_name
                    /\ Excludes(types_call.self, types_call.arg)
           /\ types_call.arg.column # types_call.self.column_name
                 => types_answer.v
           /\ types_call.arg.operator \notin {"GT", "GTE", "LT", "LTE", "EQ"}
                 => types_answer.v
           /\ ComparisonRaises(types_call.self, types_call.arg)
                 => types_answer.v
           /\ ( /\ types_call.arg.column = types_call.self.column_name
                /\ Excludes(types_call.self, types_call.arg)
                /\ ~ComparisonRaises(types_call.self, types_call.arg) )
                 => ~types_answer.v

\* GT 5 against the range 1..5 was answered false.
C28_Witness ==
    /\ types_call # NoneObj
    /\ types_call.method = "can_satisfy_predicate"
    /\ types_call.self = ColumnStatistics(year, PyInt(1), PyInt(5))
    /\ types_call.arg = Predicate(year, "GT", PyInt(5), NoType)
    /\ ~types_answer.v

----------------------------------------------------------------------------
(* The files execute reads.                                                *)

\* The directories of the partitions execute was given.
ScanPaths ==
    { exec_args.pruning_result.partitions_to_scan[i].path :
        i \in 1..Len(exec_args.pruning_result.partitions_to_scan) }

\* The Parquet files that lie now in those directories.
OnDiskNow ==
    UNION { { << table_dir[i].name, ParquetFiles(table_dir[i])[j].name >> :
                j \in 1..Len(ParquetFiles(table_dir[i])) } :
            i \in { k \in 1..Len(table_dir) : table_dir[k].name \in ScanPaths } }

\* execute has listed the files.
Listed == exec_pc \in {"register", "query", "returned", "raised"}

\* C29: pruned partitions are never read: every file execute lists and
\* registers as the table lies directly in the directory of a partition of
\* partitions_to_scan, and the files are those the directories hold when
\* execute runs, whatever discovery recorded.
C29_PrunedNeverRead ==
    Listed
        => /\ \A i \in 1..Len(file_paths) : file_paths[i][1] \in ScanPaths
           /\ { file_paths[i] : i \in 1..Len(file_paths) } = OnDiskNow
           /\ exec_pc = "query"
                 => [name |-> exec_args.table_name, files |-> file_paths]
                       \in views

\* Of two partitions discovered, one was given to execute; a file was
\* written to its directory in between, and the table is registered on two
\* files where discovery had counted one.
C29_Witness ==
    /\ exec_pc = "query"
    /\ Len(exec_args.pruning_result.partitions_to_scan) = 1
    /\ exec_args.pruning_result.total_partitions = 2
    /\ exec_args.pruning_result.total_files = 1
    /\ Len(file_paths) = 2
    /\ file_paths[2][2] = BParquet

\* C30: an empty selection short-circuits execution: when execute finds no
\* data file in the partitions it was given, its next step is to return an
\* empty DataFrame; the SQL is not submitted and the views of the
\* connection stay as they were, the view of the table included.
C30_EmptySelectionShortCircuits ==
    [][ (exec_pc = "paths" /\ exec_pc' # "paths" /\ file_paths' = <<>>)
            => /\ exec_pc' = "returned"
               /\ exec_result' = DataFrame(<<>>)
               /\ views' = views ]_vars

\* execute returned without files for a partition whose directory was
\* emptied, a query the engine can parse and a table whose view an earlier
\* call has bound to files.
C30_Witness ==
    /\ exec_pc = "returned"
    /\ file_paths = <<>>
    /\ exec_result = DataFrame(<<>>)
    /\ ~exec_args.sql.malformed
    /\ Len(exec_args.pruning_result.partitions_to_scan) = 1
    /\ \E v \in views : v.name = exec_args.table_name /\ v.files # <<>>

====
